---- MODULE Spec2Model ----
(***************************************************************************)
(* TRAI data ingestion (src/trai_brain/data_ingestion.py): the secret      *)
(* redactor, the segmenter, the categorizer, the flow classifier, the      *)
(* conversation-tree extractor, the size-tiered file processor, the JSON   *)
(* processor and the output writer of class TRAIDataIngestion, and main(). *)
(*                                                                         *)
(* Text is a TLA+ string; SubSeq, Len and \o act on strings as Python's    *)
(* slices, len and + do.  Positions are 1-based.                           *)
(***************************************************************************)
EXTENDS Integers, Sequences, FiniteSets, TLC

VARIABLES
    categories,   \* self.categories: label -> sequence of records
    stats,        \* self.stats
    results,      \* main(): the list of per-file results
    accepted,     \* history: the utterances accepted so far, with their records
    files,        \* history: the name and the size of the files processed
    call,         \* the direct call of one method under examination
    brain         \* the output directory: <<>> until generate_static_brain
                  \* has run, then <<the files it wrote>>

vars == <<categories, stats, results, accepted, files, call, brain>>

----------------------------------------------------------------------------
(* Characters and strings                                                  *)

Lowers == {"a","b","c","d","e","f","g","h","i","j","k","l","m",
           "n","o","p","q","r","s","t","u","v","w","x","y","z"}
Uppers == {"A","B","C","D","E","F","G","H","I","J","K","L","M",
           "N","O","P","Q","R","S","T","U","V","W","X","Y","Z"}
Digits == {"0","1","2","3","4","5","6","7","8","9"}
Letters == Lowers \cup Uppers
\* \s of the re module (the ASCII part)
Whitespace == {" ", "\n", "\t", "\r"}
Quotes == {"\"", "'"}
\* \w of the re module (the ASCII part)
WordChars == Letters \cup Digits \cup {"_"}
\* [A-Za-z0-9_-]
TokenChars == Letters \cup Digits \cup {"_", "-"}
\* the characters [^\s'"] excludes
UrlStops == Whitespace \cup Quotes
\* [a-zA-HJ-NP-Z0-9] under re.IGNORECASE
Base58Chars == Letters \cup Digits
\* [a-fA-F0-9]
HexChars == Digits \cup {"a","b","c","d","e","f","A","B","C","D","E","F"}

\* s[i-1:j] of Python for 1 <= i: the characters i..j that the string has
Slice(s, i, j) ==
    LET lo == IF i < 1 THEN 1 ELSE i
        hi == IF j > Len(s) THEN Len(s) ELSE j
    IN  IF lo > hi THEN "" ELSE SubSeq(s, lo, hi)

\* s[i-1] of Python, "" outside the string
Ch(s, i) == IF i >= 1 /\ i <= Len(s) THEN SubSeq(s, i, i) ELSE ""

\* s[i-1:] of Python
From(s, i) == Slice(s, i, Len(s))

LowerOf ==
    "A" :> "a" @@ "B" :> "b" @@ "C" :> "c" @@ "D" :> "d" @@ "E" :> "e" @@
    "F" :> "f" @@ "G" :> "g" @@ "H" :> "h" @@ "I" :> "i" @@ "J" :> "j" @@
    "K" :> "k" @@ "L" :> "l" @@ "M" :> "m" @@ "N" :> "n" @@ "O" :> "o" @@
    "P" :> "p" @@ "Q" :> "q" @@ "R" :> "r" @@ "S" :> "s" @@ "T" :> "t" @@
    "U" :> "u" @@ "V" :> "v" @@ "W" :> "w" @@ "X" :> "x" @@ "Y" :> "y" @@
    "Z" :> "z"

LowerCh(c) == IF c \in Uppers THEN LowerOf[c] ELSE c

\* str.lower(), one half of the string after the other
RECURSIVE lower(_)
lower(s) ==
    IF Len(s) <= 1 THEN LowerCh(s)
    ELSE lower(SubSeq(s, 1, Len(s) \div 2))
             \o lower(SubSeq(s, Len(s) \div 2 + 1, Len(s)))

\* s.startswith(lit, i-1)
StartsAt(s, i, lit) ==
    Ch(s, i) = Ch(lit, 1) /\ Slice(s, i, i + Len(lit) - 1) = lit

\* the same, ignoring case (re.IGNORECASE); lit is given in lower case
StartsAtI(s, i, lit) ==
    LowerCh(Ch(s, i)) = Ch(lit, 1) /\ lower(Slice(s, i, i + Len(lit) - 1)) = lit

\* the characters of s, one by one
Chars(s) == [i \in 1..Len(s) |-> SubSeq(s, i, i)]

\* word in s, for a non-empty word; chars is Chars(s)
Contains(s, chars, word) ==
    LET first == SubSeq(word, 1, 1)
        n == Len(word)
    IN  \E i \in 1..(Len(s) - n + 1) :
            chars[i] = first /\ SubSeq(s, i, i + n - 1) = word

\* any(word in s for word in words); chars is Chars(s)
ContainsAny(s, chars, words) ==
    \E k \in 1..Len(words) : Contains(s, chars, words[k])

Max(S) == CHOOSE x \in S : \A y \in S : y <= x
Min(S) == CHOOSE x \in S : \A y \in S : x <= y

\* the first position >= i whose character is outside class, Len(s)+1 if
\* none; the string is scanned eight characters at a time
RECURSIVE RunEnd(_, _, _)
RunEnd(s, i, class) ==
    LET stops == {j \in i..(i + 7) : j > Len(s) \/ Ch(s, j) \notin class}
    IN  IF stops = {} THEN RunEnd(s, i + 8, class) ELSE Min(stops)

\* the same for a class given by the characters it excludes ([^...])
RECURSIVE RunEndNot(_, _, _)
RunEndNot(s, i, excluded) ==
    LET stops == {j \in i..(i + 7) : j > Len(s) \/ Ch(s, j) \in excluded}
    IN  IF stops = {} THEN RunEndNot(s, i + 8, excluded) ELSE Min(stops)

\* str.strip()
RECURSIVE lstrip(_)
lstrip(s) == IF s # "" /\ Ch(s, 1) \in Whitespace THEN lstrip(From(s, 2)) ELSE s
RECURSIVE rstrip(_)
rstrip(s) ==
    IF s # "" /\ Ch(s, Len(s)) \in Whitespace
    THEN rstrip(Slice(s, 1, Len(s) - 1)) ELSE s
strip(s) == rstrip(lstrip(s))

\* str.replace(old, new) for a non-empty old: every non-overlapping
\* occurrence, left to right
RECURSIVE replace(_, _, _)
replace(s, old, new) ==
    LET found == {i \in 1..(Len(s) - Len(old) + 1) : StartsAt(s, i, old)}
    IN  IF found = {} THEN s
        ELSE Slice(s, 1, Min(found) - 1) \o new
                 \o replace(From(s, Min(found) + Len(old)), old, new)

\* \b of the re module at the gap before position i
WordBoundary(s, i) == (Ch(s, i - 1) \in WordChars) # (Ch(s, i) \in WordChars)

----------------------------------------------------------------------------
(* self.secret_patterns: the twenty rules, each a matcher at one position. *)
(* Every pattern is searched with re.IGNORECASE | re.DOTALL.  A matcher    *)
(* returns the end of the match (the position after it, 0 when the rule    *)
(* does not match at i) and what re.findall returns for it, collapsed as   *)
(* filter_secrets collapses it: the whole match of a rule without groups,  *)
(* the group of a rule with one group, the non-empty groups of a rule with *)
(* several groups joined.                                                  *)

NoMatch == [end |-> 0, value |-> ""]

\* the match s[i..e-1] of a rule whose findall value is the whole match
Span(s, i, e) == [end |-> e, value |-> Slice(s, i, e - 1)]

\* a run from i to e that must have n characters at least
LongRun(s, i, e, n) == IF e - i >= n THEN Span(s, i, e) ELSE NoMatch

\* ([A-Za-z0-9_-]{20,})
MatchLongToken(s, i) ==
    IF Ch(s, i + 19) \notin TokenChars THEN NoMatch
    ELSE LongRun(s, i, RunEnd(s, i, TokenChars), 20)

\* One alternative of a keyword group: <<a, b>> is a[_-]?b, <<a>> is a.
\* The end of the keyword, 0 when it is not at i.
KeywordAltEnd(s, i, alt) ==
    IF ~StartsAtI(s, i, alt[1]) THEN 0
    ELSE IF Len(alt) = 1 THEN i + Len(alt[1])
    ELSE LET j == i + Len(alt[1])
             k == IF Ch(s, j) \in {"_", "-"} THEN j + 1 ELSE j
         IN  IF StartsAtI(s, k, alt[2]) THEN k + Len(alt[2]) ELSE 0

\* the end of the run of value characters from st
ValueRunEnd(s, st, class) ==
    IF class = "token" THEN RunEnd(s, st, TokenChars)
    ELSE RunEndNot(s, st, Quotes)

\* VALUE{n,} can start at st
Fits(s, st, class, n) == ValueRunEnd(s, st, class) - st >= n

\* the last of lo..hi at which the value can start, 0 when there is none
LastFit(s, lo, hi, class, n) ==
    LET fit == {st \in lo..hi : Fits(s, st, class, n)}
    IN  IF fit = {} THEN 0 ELSE Max(fit)

\* ["']? at k3
AfterQuote(s, k3) == IF Ch(s, k3) \in Quotes THEN k3 + 1 ELSE k3

\* the start of the value: k4, after the blanks k2..k3-1 and the optional
\* quote; \s* and ["']? are greedy and give back what they took when the
\* value is too short there
ValueStart(s, k2, k3, k4, class, n) ==
    IF Fits(s, k4, class, n) THEN k4 ELSE LastFit(s, k2, k3 - 1, class, n)

\* (VALUE{n,})["']? from st to e, for the keyword text kw
KeyedValue(s, st, e, kw) ==
    [end |-> IF Ch(s, e) \in Quotes THEN e + 1 ELSE e,
     value |-> kw \o Slice(s, st, e - 1)]

KeyedFrom(s, st, kw, class) ==
    IF st = 0 THEN NoMatch
    ELSE KeyedValue(s, st, ValueRunEnd(s, st, class), kw)

\* \s*["']?(VALUE{n,})["']? from k2, the blanks ending at k3
AfterSeparator(s, k2, k3, kw, class, n) ==
    KeyedFrom(s, ValueStart(s, k2, k3, AfterQuote(s, k3), class, n), kw, class)

\* [=:]\s*["']?(VALUE{n,})["']? from k1
Separator(s, k1, kw, class, n) ==
    IF Ch(s, k1) \notin {"=", ":"} THEN NoMatch
    ELSE AfterSeparator(s, k1 + 1, RunEnd(s, k1 + 1, Whitespace), kw, class, n)

\* \s*[=:]\s*["']?(VALUE{n,})["']? from k, the end of the keyword that
\* starts at i; 0 for k: the keyword is not there
KeyedRest(s, i, k, class, n) ==
    IF k = 0 THEN NoMatch
    ELSE Separator(s, RunEnd(s, k, Whitespace), Slice(s, i, k - 1), class, n)

\* the match with alternative a of the keyword group
KeyedAlt(s, i, alts, a, class, n) ==
    KeyedRest(s, i, KeywordAltEnd(s, i, alts[a]), class, n)

\* (?i)(kw1|kw2|...)\s*[=:]\s*["']?(VALUE{n,})["']?: the first alternative
\* that leads to a match
MatchKeyed(s, i, alts, class, n) ==
    LET hits == {a \in 1..Len(alts) : KeyedAlt(s, i, alts, a, class, n).end # 0}
    IN  IF hits = {} THEN NoMatch
        ELSE KeyedAlt(s, i, alts, Min(hits), class, n)

\* eyJ[A-Za-z0-9_-]*\.[A-Za-z0-9_-]*\.?[A-Za-z0-9_-]*
MatchJWT(s, i) ==
    IF ~StartsAtI(s, i, "eyj") THEN NoMatch
    ELSE LET a == RunEnd(s, i + 3, TokenChars)
         IN  IF Ch(s, a) # "." THEN NoMatch
             ELSE LET b == RunEnd(s, a + 1, TokenChars)
                      c == IF Ch(s, b) = "." THEN b + 1 ELSE b
                  IN  Span(s, i, RunEnd(s, c, TokenChars))

PemWords == <<"rsa", "ec", "dsa", "private", "public">>

\* \s+KEY----- from p, the blanks ending at w2: the end, 0 when absent
PemKeyEnd(s, p, w2) ==
    IF w2 > p /\ StartsAtI(s, w2, "key-----") THEN w2 + 8 ELSE 0

\* word k of (?:RSA|EC|DSA|PRIVATE|PUBLIC), then \s+KEY-----, from w1
PemWordEnd(s, w1, k) ==
    IF ~StartsAtI(s, w1, PemWords[k]) THEN 0
    ELSE PemKeyEnd(s, w1 + Len(PemWords[k]),
                   RunEnd(s, w1 + Len(PemWords[k]), Whitespace))

\* \s+(?:RSA|EC|DSA|PRIVATE|PUBLIC)\s+KEY----- from j, the blanks ending at w1
PemWordsEnd(s, j, w1) ==
    LET hits == {k \in 1..Len(PemWords) : PemWordEnd(s, w1, k) # 0}
    IN  IF w1 = j \/ hits = {} THEN 0 ELSE PemWordEnd(s, w1, Min(hits))

\* -----BEGIN\s+(?:RSA|EC|DSA|PRIVATE|PUBLIC)\s+KEY----- (word "begin" or
\* "end"): the end of the marker, 0 when it is not at i
PemMarkerEnd(s, i, word) ==
    IF ~StartsAtI(s, i, "-----" \o word) THEN 0
    ELSE PemWordsEnd(s, i + 5 + Len(word),
                     RunEnd(s, i + 5 + Len(word), Whitespace))

\* .*?-----END ... KEY----- : up to the first end marker among ends
PemUntil(s, i, ends) ==
    IF ends = {} THEN NoMatch
    ELSE Span(s, i, PemMarkerEnd(s, Min(ends), "end"))

\* the match whose begin marker ends at b
PemFrom(s, i, b) ==
    IF b = 0 THEN NoMatch
    ELSE PemUntil(s, i, {j \in b..Len(s) : PemMarkerEnd(s, j, "end") # 0})

\* -----BEGIN ... KEY-----.*?-----END ... KEY-----
MatchPEM(s, i) == PemFrom(s, i, PemMarkerEnd(s, i, "begin"))

DbSchemes == <<"mongodb", "postgres", "mysql", "redis">>

\* (?i)(mongodb|postgres|mysql|redis)://[^\s'"]+   (findall gives the group)
MatchDbUrl(s, i) ==
    LET hits == {k \in 1..Len(DbSchemes) :
                    /\ StartsAtI(s, i, DbSchemes[k])
                    /\ StartsAt(s, i + Len(DbSchemes[k]), "://")
                    /\ RunEndNot(s, i + Len(DbSchemes[k]) + 3, UrlStops)
                         > i + Len(DbSchemes[k]) + 3}
    IN  IF hits = {} THEN NoMatch
        ELSE LET n == Len(DbSchemes[Min(hits)])
             IN  [end |-> RunEndNot(s, i + n + 3, UrlStops),
                  value |-> Slice(s, i, i + n - 1)]

EmailLocal == Letters \cup Digits \cup {".", "_", "%", "+", "-"}
EmailDomain == Letters \cup Digits \cup {".", "-"}
EmailTld == Letters \cup {"|"}

\* \b[A-Za-z0-9._%+-]+@[A-Za-z0-9.-]+\.[A-Z|a-z]{2,}\b
MatchEmail(s, i) ==
    IF ~(Ch(s, i) \in EmailLocal /\ WordBoundary(s, i)) THEN NoMatch
    ELSE LET at == RunEnd(s, i, EmailLocal)
         IN  IF Ch(s, at) # "@" THEN NoMatch
             ELSE
             LET de == RunEnd(s, at + 1, EmailDomain)
                 TldEnds(d) == {e \in (d + 3)..RunEnd(s, d + 1, EmailTld) :
                                   WordBoundary(s, e)}
                 dots == {d \in (at + 2)..(de - 1) :
                             Ch(s, d) = "." /\ TldEnds(d) # {}}
             IN  IF dots = {} THEN NoMatch
                 ELSE Span(s, i, Max(TldEnds(Max(dots))))

\* \d{1,3} with its digit run ending at r: r when the run has 1 to 3
\* digits, else 0
OctetRun(i, r) == IF r - i >= 1 /\ r - i <= 3 THEN r ELSE 0

OctetEnd(s, i) == OctetRun(i, RunEnd(s, i, Digits))

\* \.\d{1,3} after an octet that ends at o (0: there was none)
NextOctetEnd(s, o) ==
    IF o # 0 /\ Ch(s, o) = "." THEN OctetEnd(s, o + 1) ELSE 0

\* the four octets from i ending at o4, between two word boundaries
IpSpan(s, i, o4) ==
    IF WordBoundary(s, i) /\ o4 # 0 /\ WordBoundary(s, o4)
    THEN Span(s, i, o4) ELSE NoMatch

\* \b\d{1,3}\.\d{1,3}\.\d{1,3}\.\d{1,3}\b
MatchIP(s, i) ==
    IpSpan(s, i, NextOctetEnd(s, NextOctetEnd(s, NextOctetEnd(s, OctetEnd(s, i)))))

\* \b(bc1|[13])[a-zA-HJ-NP-Z0-9]{25,}\b   (findall gives the group)
MatchBitcoin(s, i) ==
    LET p == IF StartsAtI(s, i, "bc1") THEN i + 3
             ELSE IF Ch(s, i) \in {"1", "3"} THEN i + 1 ELSE 0
        r == RunEnd(s, p, Base58Chars)
    IN  IF WordBoundary(s, i) /\ p # 0 /\ r - p >= 25 /\ WordBoundary(s, r)
        THEN [end |-> r, value |-> Slice(s, i, p - 1)]
        ELSE NoMatch

\* \b0x[a-fA-F0-9]{40}\b
MatchEthereum(s, i) ==
    IF /\ WordBoundary(s, i)
       /\ StartsAtI(s, i, "0x")
       /\ RunEnd(s, i + 2, HexChars) >= i + 42
       /\ WordBoundary(s, i + 42)
    THEN Span(s, i, i + 42)
    ELSE NoMatch

\* a hex run from i to r between two word boundaries
HexSpan(s, i, r) ==
    IF r - i >= 32 /\ WordBoundary(s, r) THEN Span(s, i, r) ELSE NoMatch

\* \b[a-fA-F0-9]{32,}\b
MatchLongHex(s, i) ==
    IF WordBoundary(s, i) /\ Ch(s, i + 31) \in HexChars
    THEN HexSpan(s, i, RunEnd(s, i, HexChars))
    ELSE NoMatch

UrlWords == <<"key", "token", "secret", "password", "auth">>

\* ://[^\s'"]+\?[^\s'"]*(?:key|token|secret|password|auth)[^\s'"]* from j,
\* the run of [^\s'"] ending at r
UrlSpan(s, i, j, r) ==
    IF /\ StartsAt(s, j, "://")
       /\ \E q \in (j + 4)..(r - 1) :
             /\ Ch(s, q) = "?"
             /\ \E k \in 1..Len(UrlWords) :
                   \E t \in (q + 1)..(r - Len(UrlWords[k])) :
                       StartsAtI(s, t, UrlWords[k])
    THEN Span(s, i, r)
    ELSE NoMatch

\* the rule from j, the end of http or https
UrlFrom(s, i, j) == UrlSpan(s, i, j, RunEndNot(s, j + 3, UrlStops))

\* https?://[^\s'"]+\?[^\s'"]*(?:key|token|secret|password|auth)[^\s'"]*
MatchTokenUrl(s, i) ==
    IF ~StartsAtI(s, i, "http") THEN NoMatch
    ELSE UrlFrom(s, i, IF LowerCh(Ch(s, i + 4)) = "s" THEN i + 5 ELSE i + 4)

\* self.secret_patterns, in the order of the list: the kind of each rule
\* and, for a keyed rule, its keyword group, the class of its value and the
\* least length of the value; first is the set of characters, in lower
\* case, a match of the rule can begin with
Keyed(alts, class, n, first) ==
    [kind |-> "keyed", alts |-> alts, class |-> class, n |-> n, first |-> first]
Unkeyed(kind, first) == [kind |-> kind, first |-> first]

secret_patterns == <<
    Unkeyed("long_token", Lowers \cup Digits \cup {"_", "-"}),
    Keyed(<<<<"api", "key">>, <<"apikey">>>>, "token", 10, {"a"}),
    Keyed(<<<<"secret", "key">>, <<"secretkey">>>>, "token", 10, {"s"}),
    Keyed(<<<<"access", "token">>, <<"accesstoken">>>>, "token", 10, {"a"}),
    Keyed(<<<<"auth", "token">>, <<"authtoken">>>>, "token", 10, {"a"}),
    Keyed(<<<<"bearer", "token">>, <<"bearertoken">>>>, "token", 10, {"b"}),
    Keyed(<<<<"password">>, <<"passwd">>, <<"pwd">>>>, "notquote", 3, {"p"}),
    Keyed(<<<<"db", "password">>, <<"dbpassword">>>>, "notquote", 3, {"d"}),
    Unkeyed("jwt", {"e"}),
    Unkeyed("pem", {"-"}),
    Keyed(<<<<"private", "key">>, <<"privatekey">>>>, "notquote", 10, {"p"}),
    Unkeyed("db_url", {"m", "p", "r"}),
    Keyed(<<<<"database", "url">>, <<"databaseurl">>>>, "notquote", 1, {"d"}),
    Unkeyed("email", Lowers \cup Digits \cup {".", "_", "%", "+", "-"}),
    Unkeyed("ip", Digits),
    Unkeyed("bitcoin", {"b", "1", "3"}),
    Unkeyed("ethereum", {"0"}),
    Keyed(<<<<"wallet", "address">>, <<"walletaddress">>>>, "notquote", 10, {"w"}),
    Unkeyed("long_hex", Digits \cup {"a", "b", "c", "d", "e", "f"}),
    Unkeyed("token_url", {"h"}) >>

NumPatterns == Len(secret_patterns)

\* the match of a rule at position i
MatchRule(rule, s, i) ==
    CASE rule.kind = "long_token" -> MatchLongToken(s, i)
      [] rule.kind = "keyed" -> MatchKeyed(s, i, rule.alts, rule.class, rule.n)
      [] rule.kind = "jwt" -> MatchJWT(s, i)
      [] rule.kind = "pem" -> MatchPEM(s, i)
      [] rule.kind = "db_url" -> MatchDbUrl(s, i)
      [] rule.kind = "email" -> MatchEmail(s, i)
      [] rule.kind = "ip" -> MatchIP(s, i)
      [] rule.kind = "bitcoin" -> MatchBitcoin(s, i)
      [] rule.kind = "ethereum" -> MatchEthereum(s, i)
      [] rule.kind = "long_hex" -> MatchLongHex(s, i)
      [] rule.kind = "token_url" -> MatchTokenUrl(s, i)

\* the match of rule p at every position of s; low is the text in lower
\* case, character by character
MatchesAt(rule, s, low) ==
    [j \in 1..Len(s) |->
        IF low[j] \in rule.first THEN MatchRule(rule, s, j) ELSE NoMatch]

MatchAt(p, s, i) == MatchRule(secret_patterns[p], s, i)

\* the match found at a position, then the matches after its end
RECURSIVE MatchesFrom(_, _, _)
ThenMatchesFrom(at, starts, m) ==
    <<m.value>> \o MatchesFrom(at, starts, m.end)

\* the matches from position i on, left to right: each search resumes where
\* the last match ended; collapsed values
MatchesFrom(at, starts, i) ==
    LET later == {j \in starts : j >= i}
    IN  IF later = {} THEN <<>>
        ELSE ThenMatchesFrom(at, starts, at[Min(later)])

\* the matches of a rule, given what it matches at every position
Matches(at) == MatchesFrom(at, {j \in DOMAIN at : at[j].end > j}, 1)

\* re.findall(pattern, content, re.IGNORECASE | re.DOTALL)
findall(p, s, low) == Matches(MatchesAt(secret_patterns[p], s, low))

----------------------------------------------------------------------------
(* filter_secrets                                                          *)

Placeholder == "[REDACTED_SECRET]"

\* the length below which a collapsed match is skipped
MinSecretLen == 8

\* the number of characters of a secret the audit entry keeps before "..."
PreviewLen == 20

\* the threshold test with 4 in the place of 8
TooShortBelowFour(secret_value) == Len(strip(secret_value)) < 4

\* if len(secret_value.strip()) < 8: continue
TooShort(secret_value) == Len(strip(secret_value)) < MinSecretLen

\* secret_value[:20] + "..." if len(secret_value) > 20 else secret_value
Preview(secret_value) ==
    IF Len(secret_value) > PreviewLen
    THEN Slice(secret_value, 1, PreviewLen) \o "..."
    ELSE secret_value

\* the entry appended to filtered_secrets; a rule is named by its place in
\* secret_patterns
AuditEntry(p, secret_value) ==
    [pattern |-> p, value |-> Preview(secret_value), length |-> Len(secret_value)]

\* one surviving match: replace in filtered_content, append the audit entry,
\* count it
RedactOne(acc, p, secret_value) ==
    [filtered_content |-> replace(acc.filtered_content, secret_value, Placeholder),
     filtered_secrets |-> Append(acc.filtered_secrets, AuditEntry(p, secret_value)),
     secrets_filtered |-> acc.secrets_filtered + 1]

\* for match in matches: ...
RECURSIVE RedactMatches(_, _, _, _)
RedactMatches(acc, p, matches, k) ==
    IF k > Len(matches) THEN acc
    ELSE IF TooShort(matches[k]) THEN RedactMatches(acc, p, matches, k + 1)
    ELSE RedactMatches(RedactOne(acc, p, matches[k]), p, matches, k + 1)

\* for pattern in self.secret_patterns: the matches are searched in content,
\* the replacements are made in filtered_content
RECURSIVE RedactPatterns(_, _, _, _)
RedactPatterns(acc, content, low, p) ==
    IF p > NumPatterns THEN acc
    ELSE RedactPatterns(RedactMatches(acc, p, findall(p, content, low), 1),
                        content, low, p + 1)

\* filter_secrets(content): the cleaned text, the audit list, and the number
\* added to stats['secrets_filtered']
filter_secrets(content) ==
    RedactPatterns([filtered_content |-> content, filtered_secrets |-> <<>>,
                    secrets_filtered |-> 0], content, Chars(lower(content)), 1)

----------------------------------------------------------------------------
(* The segmenter:                                                          *)
(* re.split(r'(?=## |### |^\d+\. |^- |\n\n(?=[A-Z]))', text, re.MULTILINE) *)

\* ^ under re.MULTILINE
LineStart(s, i) == i = 1 \/ Ch(s, i - 1) = "\n"

\* the lookahead matches before position i
SplitPoint(s, i) ==
    \/ StartsAt(s, i, "## ")
    \/ StartsAt(s, i, "### ")
    \/ /\ LineStart(s, i)
       /\ LET d == RunEnd(s, i, Digits) IN d > i /\ StartsAt(s, d, ". ")
    \/ LineStart(s, i) /\ StartsAt(s, i, "- ")
    \/ StartsAt(s, i, "\n\n") /\ Ch(s, i + 2) \in Uppers

\* the pieces of s from position `from` on: a piece ends before every
\* later split point
RECURSIVE SplitFrom(_, _, _)
SplitFrom(s, points, from) ==
    LET later == {i \in points : i > from}
    IN  IF later = {} THEN <<Slice(s, from, Len(s))>>
        ELSE <<Slice(s, from, Min(later) - 1)>> \o SplitFrom(s, points, Min(later))

\* re.split cuts at every empty match; the one at the start of the text
\* yields a leading empty piece
split_messages(s) ==
    LET points == {i \in 1..Len(s) : SplitPoint(s, i)}
    IN  IF 1 \in points THEN <<"">> \o SplitFrom(s, points, 1)
        ELSE SplitFrom(s, points, 1)

----------------------------------------------------------------------------
(* categorize_message                                                      *)

CategoryRules == <<
    [label |-> "architecture",
     words |-> <<"architecture", "modular", "design", "structure", "layer", "component">>],
    [label |-> "development",
     words |-> <<"implement", "build", "create", "develop", "coding", "programming">>],
    [label |-> "problem_solving",
     words |-> <<"fix", "bug", "error", "issue", "problem", "debug", "troubleshoot">>],
    [label |-> "business_strategy",
     words |-> <<"business", "revenue", "monetization", "market", "customer", "sales">>],
    [label |-> "technical_decisions",
     words |-> <<"decision", "choose", "option", "alternative", "trade-off">>],
    [label |-> "code_implementation",
     words |-> <<"function", "class", "method", "algorithm", "code">>],
    [label |-> "debugging",
     words |-> <<"debug", "log", "trace", "error", "exception">>],
    [label |-> "optimization",
     words |-> <<"optimize", "performance", "speed", "efficiency", "improve">>],
    [label |-> "ai_ml_discussion",
     words |-> <<"ai", "ml", "model", "training", "neural", "gpt", "claude">>],
    [label |-> "trading_strategy",
     words |-> <<"trade", "trading", "strategy", "pattern", "indicator">>],
    [label |-> "user_motivation",
     words |-> <<"family", "daughter", "dad", "motivation", "dream", "future">>],
    [label |-> "project_vision",
     words |-> <<"vision", "goal", "mission", "dream", "future">>],
    [label |-> "challenges_overcome",
     words |-> <<"challenge", "overcome", "difficult", "hard", "struggle">>],
    [label |-> "lessons_learned",
     words |-> <<"lesson", "learned", "mistake", "improvement", "better">>],
    [label |-> "future_planning",
     words |-> <<"future", "plan", "roadmap", "next", "upcoming">>] >>

\* the keys of self.categories
CategoryLabels == {CategoryRules[k].label : k \in 1..Len(CategoryRules)}

Uncategorized == <<"uncategorized">>

\* the labels whose rule fires, in the order of the rules
MatchedLabels(msg_lower) ==
    LET chars == Chars(msg_lower)
        hit == SelectSeq(CategoryRules,
                         LAMBDA r : ContainsAny(msg_lower, chars, r.words))
    IN  [k \in 1..Len(hit) |-> hit[k].label]

\* the return without the sentinel: return categories
NoSentinel(cats) == cats

\* return categories if categories else ['uncategorized']
OrUncategorized(cats) == IF cats # <<>> THEN cats ELSE Uncategorized

\* a categorizer that also looks for the keywords in the context
CategorizeWithContext(message, context) ==
    OrUncategorized(MatchedLabels(lower(message \o " " \o context)))

categorize_message(message, context) ==
    OrUncategorized(MatchedLabels(lower(message)))

----------------------------------------------------------------------------
(* _analyze_conversation_flow                                              *)

RevisionWords == <<"instead", "changed", "modified", "updated", "fixed">>
DefectWords == <<"problem", "issue", "error", "bug">>
RoadmapWords == <<"plan", "next", "future", "roadmap">>
QuestionWords == <<"how", "what", "why", "can you">>

\* An element of all_messages is a string (freeform text: Str) or a dict
\* (JSON: Dict, the fields it has).
Str(text) == [type |-> "str", text |-> text]
Dict(fields) == [type |-> "dict", fields |-> fields]

\* all_messages[index - 1] as lower-cased text: .get('content', '') of a
\* dict, str() of anything else
PrevContent(prev) ==
    IF prev.type = "dict"
    THEN IF "content" \in DOMAIN prev.fields THEN lower(prev.fields.content) ELSE ""
    ELSE lower(prev.text)

\* the elif chain: the first rule that fires decides.  index is 0-based as
\* in the source; all_messages[index - 1] is the element before it.
HasAny(text, words) == ContainsAny(text, Chars(text), words)

\* the chain with the planning test before the iteration test
PlanningFirst(lc, index, all_messages) ==
    IF HasAny(lc, RoadmapWords) THEN "planning"
    ELSE IF HasAny(lc, RevisionWords) THEN "iteration"
    ELSE IF HasAny(lc, DefectWords) THEN "problem_solving"
    ELSE IF index > 0 /\ Len(all_messages) > index - 1
         THEN IF HasAny(PrevContent(all_messages[index]), QuestionWords)
              THEN "response" ELSE "standalone"
         ELSE "standalone"

\* the if / elif chain of _analyze_conversation_flow on the lower-cased
\* content
FlowRules(lc, index, all_messages) ==
    IF HasAny(lc, RevisionWords) THEN "iteration"
    ELSE IF HasAny(lc, DefectWords) THEN "problem_solving"
    ELSE IF HasAny(lc, RoadmapWords) THEN "planning"
    ELSE IF index > 0 /\ Len(all_messages) > index - 1
         THEN IF HasAny(PrevContent(all_messages[index]), QuestionWords)
              THEN "response" ELSE "standalone"
         ELSE "standalone"

analyze_conversation_flow(content, index, all_messages) ==
    FlowRules(lower(content), index, all_messages)

----------------------------------------------------------------------------
(* _extract_claude_messages.  A conversation is a record with a title, a   *)
(* create_time and a mapping; a mapping is its keys in the order of the    *)
(* dict and the node of each key.  A node has a parent (None for a root),  *)
(* a list of child identifiers and a message: <<>> for None, else <<m>>,   *)
(* m being its id, the role of its author and its content parts.          *)

None == "None"

\* x in l
InList(x, l) == \E k \in 1..Len(l) : l[k] = x

\* the place of the first key whose node has parent None, 0 when there is none
FindRoot(mapping) ==
    LET roots == {k \in 1..Len(mapping.keys) :
                     mapping.node[mapping.keys[k]].parent = None}
    IN  IF roots = {} THEN 0 ELSE Min(roots)

\* the dict appended for a node: only a node with a message whose content
\* has a non-empty list of parts yields one
MessageDict(conv, msg_obj) ==
    IF msg_obj.parts = <<>> THEN <<>>
    ELSE << [content |-> msg_obj.parts[1],
             author |-> msg_obj.role,
             conversation_title |-> conv.title,
             timestamp |-> conv.create_time,
             message_id |-> msg_obj.id] >>

MessageDicts(conv, current_data) ==
    IF current_data.message = <<>> THEN <<>>
    ELSE MessageDict(conv, current_data.message[1])

\* the loop below without its break: the place of the last child that is
\* not in processed_ids
LastUnvisited(children, processed_ids) ==
    LET open == {k \in 1..Len(children) : children[k] \notin processed_ids}
    IN  IF open = {} THEN 0 ELSE Max(open)

\* the loop below without its test of processed_ids: the first child
FirstChild(children, processed_ids) ==
    IF children = <<>> THEN 0 ELSE 1

\* "for child_id in children: if child_id not in processed_ids": the place
\* of the first such child, 0 when there is none
NextChild(children, processed_ids) ==
    LET open == {k \in 1..Len(children) : children[k] \notin processed_ids}
    IN  IF open = {} THEN 0 ELSE Min(open)

\* "while message_list": the messages of the thread from current_id on
RECURSIVE FollowThread(_, _, _, _)

\* "if next_child and next_child in mapping", next_child being the child at
\* place k of children (0: None)
Continues(conv, children, k) ==
    k # 0 /\ children[k] # "" /\ InList(children[k], conv.mapping.keys)

\* "if next_child and next_child in mapping": the thread goes on with the
\* child at place k of children (0: no child is left), or ends
FollowChild(conv, children, k, processed_ids, all_messages) ==
    IF Continues(conv, children, k)
    THEN FollowThread(conv, children[k], processed_ids \cup {children[k]},
                      all_messages)
    ELSE all_messages

\* one pass of "while message_list" at the node current_data
VisitNode(conv, current_data, processed_ids, all_messages) ==
    FollowChild(conv, current_data.children,
                NextChild(current_data.children, processed_ids), processed_ids,
                all_messages \o MessageDicts(conv, current_data))

FollowThread(conv, current_id, processed_ids, all_messages) ==
    VisitNode(conv, conv.mapping.node[current_id], processed_ids, all_messages)

\* the messages of one conversation
ConversationMessages(conv) ==
    IF ~conv.has_mapping THEN <<>>
    ELSE LET root == FindRoot(conv.mapping)
         IN  IF root = 0 THEN <<>>
             ELSE FollowThread(conv, conv.mapping.keys[root],
                               {conv.mapping.keys[root]}, <<>>)

\* "for conv in conversations"
RECURSIVE extract_claude_messages(_)
extract_claude_messages(conversations) ==
    IF conversations = <<>> THEN <<>>
    ELSE ConversationMessages(Head(conversations))
         \o extract_claude_messages(Tail(conversations))

----------------------------------------------------------------------------
(* Pieces the file processors share                                        *)

\* the length below which a trimmed candidate is dropped
MinMessageLen == 50

\* the test with 40 in the place of 50
DroppedBelowForty(message) == Len(strip(message)) < 40

\* if len(message.strip()) < 50: continue
Dropped(message) == Len(strip(message)) < MinMessageLen

\* s[-n:]
LastChars(s, n) == Slice(s, Len(s) - n + 1, Len(s))

\* l[-n:]
LastItems(l, n) ==
    IF Len(l) <= n THEN l ELSE SubSeq(l, Len(l) - n + 1, Len(l))

\* sep.join(parts)
RECURSIVE join(_, _)
join(sep, parts) ==
    IF parts = <<>> THEN ""
    ELSE IF Len(parts) = 1 THEN parts[1]
    ELSE parts[1] \o sep \o join(sep, Tail(parts))

\* hashlib.md5(text.encode()).hexdigest()[:8]: the digest is a function of
\* the text alone; it is kept as the text it was computed from, so two
\* identifiers are equal exactly when the hashed texts are
md5_id(text) == [md5_of |-> text]

\* self.stats after filter_secrets and the audit loop of a processor:
\* filter_secrets has counted every surviving match, the processor appends
\* one entry per audit entry of the utterance
LogSecrets(st, found, message_index) ==
    [st EXCEPT
        !.secrets_filtered = @ + found.secrets_filtered,
        !.filtered_patterns = @ \o
            [k \in 1..Len(found.filtered_secrets) |->
                [message_index |-> message_index,
                 pattern |-> found.filtered_secrets[k].pattern,
                 preview |-> found.filtered_secrets[k].value]]]

\* self.stats['total_messages'] += 1 and the categorized / uncategorized
\* count of one utterance
CountMessage(st, cats) ==
    [st EXCEPT
        !.total_messages = @ + 1,
        !.categorized_messages = IF cats # Uncategorized THEN @ + 1 ELSE @,
        !.uncategorized_messages = IF cats # Uncategorized THEN @ ELSE @ + 1]

\* for category in categories: if category in self.categories: append
\* (the labels of one utterance are distinct)
\* the record put at the head of its buckets
PrependToCategories(buckets, cats, record) ==
    [c \in DOMAIN buckets |->
        IF InList(c, cats) THEN <<record>> \o buckets[c] ELSE buckets[c]]

\* the record put into the bucket of its first label only
AddToFirstCategory(buckets, cats, record) ==
    [c \in DOMAIN buckets |->
        IF cats[1] = c THEN Append(buckets[c], record) ELSE buckets[c]]

AddToCategories(buckets, cats, record) ==
    [c \in DOMAIN buckets |->
        IF InList(c, cats) THEN Append(buckets[c], record) ELSE buckets[c]]

\* the history entry of one accepted utterance: the locals of the loop
\* body (message, filtered_message, secrets_found) and the record built
Accepted(file, method, message, found, record) ==
    [file |-> file.name, file_size |-> file.size, method |-> method,
     message |-> message,
     filtered_message |-> found.filtered_content,
     secrets_found |-> found.filtered_secrets,
     record |-> record]

\* What the loop body of a processor does with an utterance it keeps: the
\* audit entries and the counters, the buckets, processed_messages.  The
\* audit entries carry message_index as the processor numbers it.
Keep(acc, file, method, message, found, message_index, record) ==
    [acc EXCEPT
        !.categories = AddToCategories(@, record.categories, record),
        !.stats = CountMessage(LogSecrets(@, found, message_index),
                               record.categories),
        !.processed = Append(@, record),
        !.accepted = Append(@, Accepted(file, method, message, found, record))]

\* self.stats.copy(): the counters are copied, the audit list is the same
\* list object as self.stats['filtered_patterns']
SharedPatterns == "self.stats['filtered_patterns']"
StatsCopy(st) == [st EXCEPT !.filtered_patterns = SharedPatterns]

----------------------------------------------------------------------------
(* process_md_file, the whole-buffer strategy (files up to 10,000,000      *)
(* bytes).  A processor folds over the candidates; its accumulator holds   *)
(* self.categories, self.stats, processed_messages and the history.        *)

MaxContextChars == 2000
ContextTail == 500

\* the loop "for j in range(min(3, i))" that builds context_parts, from j on
RECURSIVE ContextParts(_, _, _, _, _)
ContextParts(i, processed, j, parts, chars) ==
    IF j >= (IF i < 3 THEN i ELSE 3) THEN parts
    ELSE LET prev_idx == i - 1 - j
         IN  IF prev_idx >= 0 /\ prev_idx < Len(processed)
             THEN LET prev_content == processed[prev_idx + 1].content
                  IN  IF chars + Len(prev_content) <= MaxContextChars
                      THEN ContextParts(i, processed, j + 1,
                               <<LastChars(prev_content, ContextTail)>> \o parts,
                               chars + Len(prev_content))
                      ELSE ContextParts(i, processed, j + 1, parts, chars)
             ELSE ContextParts(i, processed, j + 1, parts, chars)

\* context_before of the whole-buffer strategy
NormalContext(i, processed) ==
    IF i > 0 /\ processed # <<>>
    THEN join(" ... ", ContextParts(i, processed, 0, <<>>, 0))
    ELSE ""

\* all_messages as _analyze_conversation_flow gets it from a text processor
Strs(messages) == [k \in 1..Len(messages) |-> Str(messages[k])]

\* the record of one utterance of the whole-buffer strategy
NormalRecord(file, i, messages, found, context_before) ==
    [id |-> md5_id(found.filtered_content),
     content |-> strip(found.filtered_content),
     original_length |-> Len(messages[i + 1]),
     filtered_secrets |-> Len(found.filtered_secrets),
     categories |-> categorize_message(found.filtered_content, context_before),
     source_file |-> file.name,
     message_index |-> i,
     context_before |-> context_before,
     length |-> Len(found.filtered_content),
     conversation_flow |->
         analyze_conversation_flow(found.filtered_content, i, Strs(messages))]

\* the loop body for an utterance that is kept, found being what
\* filter_secrets returned for it
NormalKeep(acc, file, messages, i, found) ==
    Keep(acc, file, "normal", messages[i + 1], found, i,
         NormalRecord(file, i, messages, found, NormalContext(i, acc.processed)))

\* one pass of "for i, message in enumerate(messages)"
NormalStep(acc, file, messages, i) ==
    IF Dropped(messages[i + 1]) THEN acc
    ELSE NormalKeep(acc, file, messages, i, filter_secrets(messages[i + 1]))

RECURSIVE NormalLoop(_, _, _, _)
NormalLoop(acc, file, messages, i) ==
    IF i >= Len(messages) THEN acc
    ELSE NormalLoop(NormalStep(acc, file, messages, i), file, messages, i + 1)

\* the dict process_md_file returns
NormalResult(file, done) ==
    [acc |-> done,
     result |-> [file |-> file.name,
                 messages_processed |-> Len(done.processed),
                 stats |-> StatsCopy(done.stats)]]

\* the body of process_md_file after the size checks
process_normal_file(acc, file) ==
    NormalResult(file, NormalLoop(acc, file, split_messages(file.content), 0))

----------------------------------------------------------------------------
(* _process_large_file_streaming, the chunked strategy (files over         *)
(* 10,000,000 and up to 100,000,000 bytes)                                 *)

LargeChunkSize == 50000
LargeOverlap == 5000
LargeContextTail == 300

\* len(chunks) for a content of n characters: range(0, n, chunk_size)
NumChunks(n) == (n + LargeChunkSize - 1) \div LargeChunkSize

\* chunk i (0-based) with the overlap of the previous chunk before it
ChunkText(content, i) ==
    LET lo == i * LargeChunkSize
        overlap_start == IF lo - LargeOverlap < 0 THEN 0 ELSE lo - LargeOverlap
        overlap_content == IF i > 0 THEN Slice(content, overlap_start + 1, lo) ELSE ""
    IN  overlap_content \o Slice(content, lo + 1, lo + LargeChunkSize)

\* [msg['content'][-n:] for msg in records]
Tails(records, n) ==
    [k \in 1..Len(records) |-> LastChars(records[k].content, n)]

\* context_before of the chunked strategy
LargeContext(processed) ==
    join(" ... ", Tails(LastItems(processed, 3), LargeContextTail))

\* the text the chunked strategy hashes into the identifier
LargeIdText(message, found) == message

\* the text the chunked strategy stores as the record's content
LargeContentText(message, found) == message

\* the record of one utterance of the chunked strategy
LargeRecord(file, i, j, chunk_messages, found, processed, context_before) ==
    [id |-> md5_id(LargeIdText(chunk_messages[j + 1], found)),
     content |-> strip(LargeContentText(chunk_messages[j + 1], found)),
     categories |-> categorize_message(found.filtered_content, context_before),
     source_file |-> file.name,
     chunk_number |-> i,
     message_index |-> Len(processed),
     context_before |-> context_before,
     length |-> Len(chunk_messages[j + 1]),
     conversation_flow |->
         analyze_conversation_flow(chunk_messages[j + 1], j, Strs(chunk_messages)),
     file_position |-> i * LargeChunkSize]

\* the loop body for an utterance that is kept, found being what
\* filter_secrets returned for it
LargeKeep(acc, file, i, chunk_messages, j, found) ==
    Keep(acc, file, "streaming_large", chunk_messages[j + 1], found,
         Len(acc.processed),
         LargeRecord(file, i, j, chunk_messages, found, acc.processed,
                     LargeContext(acc.processed)))

\* one pass of "for j, message in enumerate(chunk_messages)" in chunk i
LargeStep(acc, file, i, chunk_messages, j) ==
    IF Dropped(chunk_messages[j + 1]) THEN acc
    ELSE LargeKeep(acc, file, i, chunk_messages, j,
                   filter_secrets(chunk_messages[j + 1]))

RECURSIVE LargeMessages(_, _, _, _, _)
LargeMessages(acc, file, i, chunk_messages, j) ==
    IF j >= Len(chunk_messages) THEN acc
    ELSE LargeMessages(LargeStep(acc, file, i, chunk_messages, j),
                       file, i, chunk_messages, j + 1)

\* the body of "for i, chunk in enumerate(chunks)": chunk i is split and
\* its messages are processed
LargeChunk(acc, file, i) ==
    LargeMessages(acc, file, i, split_messages(ChunkText(file.content, i)), 0)

\* "for i, chunk in enumerate(chunks)": the chunks after the text of the
\* file are blank and hold no utterance
RECURSIVE LargeChunks(_, _, _)
LargeChunks(acc, file, i) ==
    IF i >= NumChunks(Len(file.content)) THEN acc
    ELSE LargeChunks(LargeChunk(acc, file, i), file, i + 1)

\* the dict _process_large_file_streaming returns
LargeResult(file, done) ==
    [acc |-> done,
     result |-> [file |-> file.name,
                 messages_processed |-> Len(done.processed),
                 chunks_processed |-> NumChunks(file.size),
                 processing_method |-> "streaming_large",
                 stats |-> StatsCopy(done.stats)]]

process_large_file_streaming(acc, file) ==
    LargeResult(file, LargeChunks(acc, file, 0))

----------------------------------------------------------------------------
(* _process_extremely_large_file, the streaming strategy (files over       *)
(* 100,000,000 bytes), and _extract_messages_from_buffer                   *)

ReadSize == 65536
KeepBuffer == 10000
KeepContext == 5
StreamContextTail == 200
CompleteMinLen == 100
CompleteLongLen == 500

\* msg.strip().endswith(('.', '!', '?', '\n\n'))
EndsSentence(stripped) ==
    \/ Ch(stripped, Len(stripped)) \in {".", "!", "?"}
    \/ Len(stripped) >= 2 /\ LastChars(stripped, 2) = "\n\n"

\* len(stripped) > 100 and (stripped.endswith(...) or len(stripped) > 500)
CompleteText(stripped) ==
    /\ Len(stripped) > CompleteMinLen
    /\ EndsSentence(stripped) \/ Len(stripped) > CompleteLongLen

\* a split piece counts as complete
Complete(msg) == CompleteText(strip(msg))

extract_messages_from_buffer(buffer) ==
    SelectSeq(split_messages(buffer), Complete)

\* context_before of the streaming strategy
StreamContext(context_buffer) ==
    join(" ... ", Tails(LastItems(context_buffer, 3), StreamContextTail))

\* the record of one utterance of the streaming strategy
StreamRecord(file, message, found, processed_count, context_before) ==
    [id |-> md5_id(found.filtered_content),
     content |-> strip(found.filtered_content),
     original_length |-> Len(message),
     filtered_secrets |-> Len(found.filtered_secrets),
     categories |-> categorize_message(found.filtered_content, context_before),
     source_file |-> file.name,
     message_index |-> processed_count,
     context_before |-> context_before,
     length |-> Len(found.filtered_content),
     conversation_flow |-> "streaming_processed"]

\* the loop body for an utterance that is kept: acc.processed is
\* context_buffer, acc.processed_count the count of the file; the audit
\* entries carry the count before the utterance, the record the count with it
StreamKeep(acc, file, message, found) ==
    [Keep(acc, file, "streaming_extremely_large", message, found,
          acc.processed_count,
          StreamRecord(file, message, found, acc.processed_count + 1,
                       StreamContext(acc.processed)))
     EXCEPT !.processed = LastItems(@, KeepContext),
            !.processed_count = @ + 1]

\* one pass of "for message in messages"
StreamStep(acc, file, message) ==
    IF Dropped(message) THEN acc
    ELSE StreamKeep(acc, file, message, filter_secrets(message))

RECURSIVE StreamMessages(_, _, _, _)
StreamMessages(acc, file, messages, k) ==
    IF k > Len(messages) THEN acc
    ELSE StreamMessages(StreamStep(acc, file, messages[k]), file, messages, k + 1)

\* a loop that keeps the whole buffer for the next pass
WholeBuffer(buffer) == buffer

\* buffer = buffer[-10000:]
KeptBuffer(buffer) == LastChars(buffer, KeepBuffer)

\* the body of "while True" after the read: the complete messages of the
\* buffer are processed, then the buffer is cut
StreamPass(acc, file, buffer) ==
    [StreamMessages(acc, file, extract_messages_from_buffer(buffer), 1)
     EXCEPT !.buffer = KeptBuffer(buffer)]

\* one pass of "while True": read at most 65536 characters from position
\* pos (0-based), process the complete messages of the buffer, keep the tail
RECURSIVE StreamReads(_, _, _)
StreamRead(acc, file, pos, buffer) ==
    StreamReads(StreamPass(acc, file, buffer), file, pos + ReadSize)

StreamReads(acc, file, pos) ==
    IF pos >= Len(file.content) THEN acc
    ELSE StreamRead(acc, file, pos,
                    acc.buffer \o Slice(file.content, pos + 1, pos + ReadSize))

\* the dict _process_extremely_large_file returns
StreamResult(file, done) ==
    [acc |-> [categories |-> done.categories, stats |-> done.stats,
              processed |-> done.processed, accepted |-> done.accepted],
     result |-> [file |-> file.name,
                 messages_processed |-> done.processed_count,
                 processing_method |-> "streaming_extremely_large",
                 stats |-> StatsCopy(done.stats)]]

process_extremely_large_file(acc, file) ==
    StreamResult(file,
        StreamReads([categories |-> acc.categories, stats |-> acc.stats,
                     processed |-> <<>>, processed_count |-> 0, buffer |-> "",
                     accepted |-> acc.accepted], file, 0))

----------------------------------------------------------------------------
(* process_md_file: the strategy is chosen from the size of the file       *)

ExtremeThreshold == 100000000
LargeThreshold == 10000000

\* if file_size > 100000000
IsExtremelyLarge(file_size) == file_size > ExtremeThreshold

\* the test with >= in the place of >
IsLargeFrom(file_size) == file_size >= LargeThreshold

\* if file_size > 10000000
IsLarge(file_size) == file_size > LargeThreshold

process_md_file(acc, file) ==
    IF IsExtremelyLarge(file.size) THEN process_extremely_large_file(acc, file)
    ELSE IF IsLarge(file.size) THEN process_large_file_streaming(acc, file)
    ELSE process_normal_file(acc, file)

----------------------------------------------------------------------------
(* The files of a run.  A file is its name, its size in bytes (st_size)    *)
(* and its text; the text of a file larger than the text written here is   *)
(* followed by blank padding, which holds no utterance.                    *)

BugFix ==
    "## Bug fix\nFixed the login error after debugging the session handler.\n\n"
Keys ==
    "## Keys\nThe new token abcdefghijklmnopqrstuvwxyz012345 was sent to john@example.com and then used once.\n\n"
Short == "- ok then\n"
Plain ==
    "## Zoo\nQuiet zebras graze beyond the hedge by the river path.\n\n"
Twice == "## Zoo\nQuiet zebras graze beyond the hedge by the river path."

FileTexts == { Keys \o BugFix, Short \o Plain \o Twice, Short }

FileSizes == { 2048, 10000000, 10000001, 100000000, 100000001 }

FileNames == <<"a.md", "b.md", "c.md", "d.md">>

\* the number of files of a run
MaxFiles == 2

Labels == {"architecture", "development", "problem_solving",
           "business_strategy", "technical_decisions", "code_implementation",
           "debugging", "optimization", "ai_ml_discussion", "trading_strategy",
           "user_motivation", "project_vision", "challenges_overcome",
           "lessons_learned", "future_planning"}

NoCall == [op |-> "none"]

\* TRAIDataIngestion.__init__: the empty buckets, the counters at zero
NewIngestion ==
    /\ categories = [c \in Labels |-> <<>>]
    /\ stats = [total_messages |-> 0, categorized_messages |-> 0,
                uncategorized_messages |-> 0, secrets_filtered |-> 0,
                filtered_patterns |-> <<>>]
    /\ results = <<>>
    /\ accepted = <<>>
    /\ files = <<>>
    /\ brain = <<>>

\* TRAIDataIngestion.__init__ and the start of main()
Init ==
    /\ NewIngestion
    /\ call = NoCall

\* what a call of a processor leaves: self.categories and self.stats as
\* the processor updated them, and the result appended by main()
Processed(file, r) ==
    /\ categories' = r.acc.categories
    /\ stats' = r.acc.stats
    /\ accepted' = r.acc.accepted
    /\ results' = Append(results, r.result)
    /\ files' = Append(files, [name |-> file.name, size |-> file.size])

\* result = ingestion.process_md_file(str(file_path))
ProcessFile(file) ==
    Processed(file, process_md_file([categories |-> categories, stats |-> stats,
                                     processed |-> <<>>, accepted |-> accepted],
                                    file))

\* main(): for file_path in md_files: result = ingestion.process_md_file(...);
\* results.append(result)
ProcessMdFile ==
    /\ Len(results) < MaxFiles
    /\ \E size \in FileSizes, text \in FileTexts :
          ProcessFile([name |-> FileNames[Len(results) + 1], size |-> size,
                       content |-> text])
    /\ UNCHANGED <<call, brain>>

Next == ProcessMdFile

Spec == Init /\ [][Next]_vars

----------------------------------------------------------------------------
(* filter_secrets on its own: a text is redacted, and the cleaned text is  *)
(* redacted once more.                                                     *)

SecretFragments == <<
    "api_key=abcdefghij1234",
    "key=ab",
    "pwd=abc",
    "password=hunter2",
    "xxxxxxxxxxxxxxxxxxxx",
    "yyyyyyyyyyyyyyyyyyyyyyyyyxxxxxxxxxxxxxxxxxxxx",
    "john@example.com",
    "10.20.30.40",
    "1.2.3.4",
    "postgres://u:p@h/db",
    "plain words" >>

\* the number of fragments of a text
MaxFragments == 2

\* the texts of n fragments, a blank between two
RECURSIVE FragmentTexts(_, _)
FragmentTexts(fragments, n) ==
    IF n = 1 THEN {fragments[k] : k \in 1..Len(fragments)}
    ELSE {t \o " " \o fragments[k] :
             t \in FragmentTexts(fragments, n - 1), k \in 1..Len(fragments)}

TextsUpTo(fragments, max) ==
    UNION {FragmentTexts(fragments, n) : n \in 1..max}

InitRedact ==
    /\ NewIngestion
    /\ \E content \in TextsUpTo(SecretFragments, MaxFragments) :
          call = [op |-> "filter_secrets", content |-> content]

\* what a call of filter_secrets leaves: what it returned, and
\* self.stats['secrets_filtered'] raised by the matches it kept
Filtered(op, field, found) ==
    /\ call' = [call EXCEPT !.op = op] @@ (field :> found)
    /\ stats' = [stats EXCEPT !.secrets_filtered = @ + found.secrets_filtered]
    /\ UNCHANGED <<categories, results, accepted, files, brain>>

\* found = self.filter_secrets(content)
FilterSecrets ==
    /\ call.op = "filter_secrets"
    /\ Filtered("filtered", "found", filter_secrets(call.content))

\* again = self.filter_secrets(found[0])
FilterAgain ==
    /\ call.op = "filtered"
    /\ Filtered("refiltered", "again", filter_secrets(call.found.filtered_content))

NextRedact == FilterSecrets \/ FilterAgain

SpecRedact == InitRedact /\ [][NextRedact]_vars

----------------------------------------------------------------------------
(* categorize_message on its own                                           *)

\* one keyword of each label, a word without any, and words that hold a
\* keyword inside
TopicFragments == <<
    "modular", "build", "solve", "revenue", "trade-off", "algorithm",
    "exception", "speed", "neural", "indicator", "daughter", "mission",
    "struggle", "mistake", "upcoming",
    "DESIGN", "Roadmap", "zebra", "explain", "dreams" >>

Contexts == {"", "the design of the plan"}

\* the number of fragments of an utterance
MaxTopics == 2

InitCategorize ==
    /\ NewIngestion
    /\ \E message \in TextsUpTo(TopicFragments, MaxTopics), context \in Contexts :
          call = [op |-> "categorize_message", message |-> message,
                  context |-> context]

\* categories = self.categorize_message(message, context)
CategorizeMessage ==
    /\ call.op = "categorize_message"
    /\ call' = [op |-> "categorized", message |-> call.message,
                context |-> call.context,
                categories |-> categorize_message(call.message, call.context)]
    /\ UNCHANGED <<categories, stats, results, accepted, files, brain>>

NextCategorize == CategorizeMessage

SpecCategorize == InitCategorize /\ [][NextCategorize]_vars

----------------------------------------------------------------------------
(* _analyze_conversation_flow on its own                                   *)

FlowFragments == <<
    "we changed it", "a Bug here", "the roadmap", "Fixed", "zebras graze",
    "what is it" >>

\* the number of fragments of an utterance
MaxFlowFragments == 2

\* what can stand before the utterance in all_messages
Previous == {
    Str("How do we start"), Str("zebras graze"), Str("the roadmap"),
    Dict([content |-> "Why not"]), Dict([content |-> "ok"]),
    Dict([text |-> "what"]) }

InitFlow ==
    /\ NewIngestion
    /\ \E content \in TextsUpTo(FlowFragments, MaxFlowFragments),
          prev \in Previous, index \in 0..1 :
          call = [op |-> "analyze_conversation_flow", content |-> content,
                  index |-> index,
                  all_messages |-> IF index = 0 THEN <<Str(content), prev>>
                                   ELSE <<prev, Str(content)>>]

\* flow = self._analyze_conversation_flow(content, index, all_messages)
AnalyzeConversationFlow ==
    /\ call.op = "analyze_conversation_flow"
    /\ call' = [op |-> "analyzed", content |-> call.content,
                index |-> call.index, all_messages |-> call.all_messages,
                flow |-> analyze_conversation_flow(call.content, call.index,
                                                   call.all_messages)]
    /\ UNCHANGED <<categories, stats, results, accepted, files, brain>>

NextFlow == AnalyzeConversationFlow

SpecFlow == InitFlow /\ [][NextFlow]_vars

----------------------------------------------------------------------------
(* _extract_claude_messages on its own: one conversation of three nodes    *)

NodeIds == <<"A", "B", "C", "">>

\* what a list of children can name: the nodes, and an identifier the
\* mapping does not have
ChildIds == {"A", "B", "C", "", "X"}

\* the number of children of a node
MaxChildren == 2

\* the lists of at most n children
RECURSIVE ChildLists(_)
ChildLists(n) ==
    IF n = 0 THEN {<<>>}
    ELSE ChildLists(n - 1)
         \cup {Append(l, c) : l \in {m \in ChildLists(n - 1) : Len(m) = n - 1},
                              c \in ChildIds}

\* the message of node id
TextOf(id) == [id |-> id, role |-> "user", parts |-> <<"text of " \o id>>]

\* a message, no message, a message without parts
Payloads(id) ==
    {<<TextOf(id)>>, <<>>, <<[id |-> id, role |-> "user", parts |-> <<>>]>>}

Node(parent, children, message) ==
    [parent |-> parent, children |-> children, message |-> message]

Conversation(a, b, c) ==
    [has_mapping |-> TRUE, title |-> "T", create_time |-> 1,
     mapping |-> [keys |-> NodeIds,
                  node |-> ("A" :> a @@ "B" :> b @@ "C" :> c
                            @@ "" :> Node("A", <<>>, <<TextOf("")>>))]]

InitTree ==
    /\ NewIngestion
    /\ \E pa \in {None, "B"}, pb \in {None, "A"},
          ca \in ChildLists(MaxChildren), cb \in ChildLists(MaxChildren - 1),
          cc \in {<<>>, <<"B">>}, mb \in Payloads("B") :
          call = [op |-> "extract_claude_messages",
                  conversations |->
                      << Conversation(Node(pa, ca, <<TextOf("A")>>),
                                      Node(pb, cb, mb),
                                      Node("A", cc, <<TextOf("C")>>)) >>]

\* messages = self._extract_claude_messages(json_data)
ExtractClaudeMessages ==
    /\ call.op = "extract_claude_messages"
    /\ call' = [op |-> "extracted", conversations |-> call.conversations,
                messages |-> extract_claude_messages(call.conversations)]
    /\ UNCHANGED <<categories, stats, results, accepted, files, brain>>

NextTree == ExtractClaudeMessages

SpecTree == InitTree /\ [][NextTree]_vars

----------------------------------------------------------------------------
(* process_json_file.  A JSON value is a string (Str), a number (Num: its  *)
(* literal), an object (Obj: its keys in the order of the document and the *)
(* value of each), a list (List) or a conversation of the tree extractor.  *)
(* The values of the fields of a message object are strings without quotes *)
(* or escapes, so that str() of the object is the text written here.       *)

Num(literal) == [type |-> "num", text |-> literal]
Obj(keys, fields) == [type |-> "dict", keys |-> keys, fields |-> fields]
List(items) == [type |-> "list", items |-> items]

\* a file json.load() rejects with json.JSONDecodeError
InvalidJson == [type |-> "invalid"]

\* repr() of a key or of a string value
PyRepr(text) == "'" \o text \o "'"

\* str(value): the text of a string, the literal of a number,
\* {'key': 'value', ...} for an object
PyStr(value) ==
    IF value.type = "dict"
    THEN "{" \o join(", ", [k \in 1..Len(value.keys) |->
                               PyRepr(value.keys[k]) \o ": "
                                   \o PyRepr(value.fields[value.keys[k]])])
             \o "}"
    ELSE value.text

\* the field names tried for the content of a message object
ContentFields == <<"content", "message", "text", "body">>

\* message_data.get('content') or ... or str(message_data)
FieldContent(message_data) ==
    LET filled == {k \in 1..Len(ContentFields) :
                      /\ ContentFields[k] \in DOMAIN message_data.fields
                      /\ message_data.fields[ContentFields[k]] # ""}
    IN  IF filled = {} THEN PyStr(message_data)
        ELSE message_data.fields[ContentFields[Min(filled)]]

\* the content of one element of messages
ItemContent(message_data) ==
    IF message_data.type = "dict" THEN FieldContent(message_data)
    ELSE PyStr(message_data)

\* {k: v for k, v in message_data.items() if k not in [...]}
JsonMetadata(message_data) ==
    [k \in {message_data.keys[n] : n \in 1..Len(message_data.keys)}
           \ {ContentFields[n] : n \in 1..Len(ContentFields)}
        |-> message_data.fields[k]]

\* isinstance(json_data[0], dict) and 'mapping' in json_data[0]
HasMapping(item) ==
    IF "type" \in DOMAIN item
    THEN item.type = "dict" /\ "mapping" \in DOMAIN item.fields
    ELSE item.has_mapping

\* the dicts _extract_claude_messages returns, as message objects
ClaudeItems(dicts) ==
    [k \in 1..Len(dicts) |->
        Obj(<<"content", "author", "conversation_title", "timestamp",
              "message_id">>, dicts[k])]

\* "Handle different JSON structures": the list messages
json_messages(json_data) ==
    IF json_data.type = "list"
    THEN IF json_data.items # <<>> /\ HasMapping(json_data.items[1])
         THEN ClaudeItems(extract_claude_messages(json_data.items))
         ELSE json_data.items
    ELSE IF json_data.type = "dict" /\ "messages" \in DOMAIN json_data.fields
    THEN json_data.fields.messages.items
    ELSE IF json_data.type = "dict" /\ "conversations" \in DOMAIN json_data.fields
    THEN json_data.fields.conversations.items
    ELSE <<json_data>>

JsonContextTail == 300

\* context_before of the JSON processor
JsonContext(i, processed) ==
    IF i > 0 /\ processed # <<>>
    THEN join(" ... ", Tails(LastItems(processed, 3), JsonContextTail))
    ELSE ""

\* the record of one message of a JSON file
JsonRecord(file, i, messages, content, context_before) ==
    [id |-> md5_id(content),
     content |-> strip(content),
     categories |-> categorize_message(content, context_before),
     source_file |-> file.name,
     message_index |-> i,
     context_before |-> context_before,
     length |-> Len(content),
     conversation_flow |-> analyze_conversation_flow(content, i, messages),
     json_metadata |-> JsonMetadata(messages[i + 1])]

\* the history entry of one accepted message of a JSON file
JsonAccepted(file, content, record) ==
    [file |-> file.name, file_size |-> file.size, method |-> "json",
     message |-> content, record |-> record]

\* the loop body for a message object that is kept
JsonKeep(acc, file, content, record) ==
    [acc EXCEPT
        !.categories = AddToCategories(@, record.categories, record),
        !.stats = CountMessage(@, record.categories),
        !.processed = Append(@, record),
        !.accepted = Append(@, JsonAccepted(file, content, record))]

\* the exception raised right after total_messages was counted
JsonRaiseAfterTotal(acc, cats) ==
    [acc EXCEPT !.stats.total_messages = @ + 1, !.raised = TRUE]

\* the loop body for a kept element that is no object: the counters are
\* raised (lines 126-140), then message_data.items() raises AttributeError
JsonRaise(acc, cats) ==
    [acc EXCEPT !.stats = CountMessage(@, cats), !.raised = TRUE]

\* one pass of "for i, message_data in enumerate(messages)"
JsonStep(acc, file, messages, i, content) ==
    IF Dropped(content) THEN acc
    ELSE IF messages[i + 1].type # "dict"
    THEN JsonRaise(acc, categorize_message(content, JsonContext(i, acc.processed)))
    ELSE JsonKeep(acc, file, content,
                  JsonRecord(file, i, messages, content,
                             JsonContext(i, acc.processed)))

RECURSIVE JsonLoop(_, _, _, _)
JsonLoop(acc, file, messages, i) ==
    IF i >= Len(messages) \/ acc.raised THEN acc
    ELSE JsonLoop(JsonStep(acc, file, messages, i, ItemContent(messages[i + 1])),
                  file, messages, i + 1)

\* how the call ended ("ok": a result, "raised": an exception left the
\* method), self.categories and self.stats after it, and the dict returned
JsonResult(file, done) ==
    [outcome |-> IF done.raised THEN "raised" ELSE "ok",
     acc |-> [categories |-> done.categories, stats |-> done.stats,
              processed |-> done.processed, accepted |-> done.accepted],
     result |-> [file |-> file.name,
                 messages_processed |-> Len(done.processed),
                 format |-> "json",
                 stats |-> StatsCopy(done.stats)]]

\* except json.JSONDecodeError: return {'error': ...}
\* an error result of a processor that counted a message before it failed
JsonErrorCounted(acc) ==
    [outcome |-> "error",
     acc |-> [acc EXCEPT !.stats = CountMessage(@, <<"uncategorized">>)],
     result |-> [error |-> "JSON parsing failed"]]

JsonError(acc) ==
    [outcome |-> "error", acc |-> acc,
     result |-> [error |-> "JSON parsing failed"]]

process_json_file(acc, file) ==
    IF file.doc.type = "invalid" THEN JsonError(acc)
    ELSE JsonResult(file,
             JsonLoop([categories |-> acc.categories, stats |-> acc.stats,
                       processed |-> <<>>, accepted |-> acc.accepted,
                       raised |-> FALSE],
                      file, json_messages(file.doc), 0))

----------------------------------------------------------------------------
(* generate_static_brain and get_category_description                      *)

\* the keys of self.categories in the order of the dict
CategoryOrder == [k \in 1..Len(CategoryRules) |-> CategoryRules[k].label]

Descriptions ==
    [architecture |-> "System design, modular architecture, and technical structure decisions",
     development |-> "Code implementation, feature development, and programming discussions",
     problem_solving |-> "Bug fixes, error resolution, and troubleshooting processes",
     business_strategy |-> "Revenue models, market positioning, and business growth strategies",
     technical_decisions |-> "Architecture choices, technology selections, and trade-off analysis",
     code_implementation |-> "Specific code writing, algorithm development, and implementation details",
     debugging |-> "Error investigation, logging strategies, and diagnostic procedures",
     optimization |-> "Performance improvements, efficiency enhancements, and optimization techniques",
     ai_ml_discussion |-> "AI/ML model discussions, training strategies, and machine learning topics",
     trading_strategy |-> "Trading algorithms, market analysis, and trading system design",
     user_motivation |-> "Personal motivation, family goals, and driving factors behind the project",
     project_vision |-> "Long-term goals, mission statements, and project aspirations",
     challenges_overcome |-> "Difficulties faced and solutions implemented",
     lessons_learned |-> "Key insights, mistakes made, and improvements identified",
     future_planning |-> "Roadmap planning, upcoming features, and long-term strategy"]

get_category_description(category) ==
    IF category \in DOMAIN Descriptions THEN Descriptions[category]
    ELSE "Content related to " \o category

\* category_data of one category
CategoryData(buckets, st, category) ==
    [category |-> category,
     description |-> get_category_description(category),
     total_messages |-> Len(buckets[category]),
     messages |-> buckets[category],
     stats |-> st]

\* the loop below without its test: every category gets a file
AllCategories(buckets) == CategoryOrder

\* "for category, messages in self.categories.items(): if not messages:
\* continue": the categories that get a file, in the order of the dict
WrittenCategories(buckets) ==
    SelectSeq(CategoryOrder, LAMBDA c : buckets[c] # <<>>)

\* the files <category>.json, in the order they are written
CategoryFiles(buckets, st, written) ==
    [k \in 1..Len(written) |->
        [name |-> written[k] \o ".json",
         data |-> CategoryData(buckets, st, written[k])]]

\* master_index.json
MasterIndex(buckets, st) ==
    [name |-> "master_index.json",
     data |-> [version |-> "1.0.0",
               total_messages |-> st.total_messages,
               categorized_messages |-> st.categorized_messages,
               categories |-> [c \in {l \in DOMAIN buckets : buckets[l] # <<>>}
                                  |-> Len(buckets[c])],
               source_files |-> <<>>]]

\* the files written, the master index last
generate_static_brain(buckets, st) ==
    Append(CategoryFiles(buckets, st, WrittenCategories(buckets)),
           MasterIndex(buckets, st))

----------------------------------------------------------------------------
(* main(): the files found are processed one after another, the text      *)
(* files first (all_files = md_files + json_files), then the output is     *)
(* written.  Without a file main() returns before anything is written.     *)

EndToEnd ==
    "## Bug fix\nFixed the login error after debugging.\n\n## Next steps\nPlan the roadmap for next release."
Shrunk ==
    "## Bug\nThe error came with abcdefghijklmnopqrstuvwxyz0123456789abcdefghijklmnop.\n\n"

Unfinished ==
    "## Later\nThe second utterance of this file is long enough to be kept, but the writer left it without a full stop"

\* the text files of a run: the size and the text of each
RunTexts == <<
    [size |-> 2048, content |-> EndToEnd],
    [size |-> 2048, content |-> Shrunk \o BugFix],
    [size |-> 2048, content |-> Short \o Short \o Short \o Plain \o Twice],
    [size |-> 2048, content |-> Keys \o BugFix],
    [size |-> 10000001, content |-> Keys \o BugFix],
    [size |-> 100000001, content |-> Keys \o Unfinished],
    [size |-> 100000001, content |-> Short \o Short \o Short \o Plain \o Twice] >>

Question == "How can the design of the trading layer be made simpler for us?"
Answer == "We changed the structure so that each component has one clear task."
Remark == "The market data arrives through a single queue in the new version."
Aside == "Quiet zebras graze beyond the hedge by the river path today."

\* a message object with one field
OneField(key, text) == Obj(<<key>>, (key :> text))

\* a conversation of two nodes, the question and the answer
Thread ==
    [has_mapping |-> TRUE, title |-> "T", create_time |-> 1,
     mapping |->
        [keys |-> <<"A", "B">>,
         node |-> ("A" :> Node(None, <<"B">>,
                               <<[id |-> "A", role |-> "user", parts |-> <<Question>>]>>)
                   @@ "B" :> Node("A", <<>>,
                               <<[id |-> "B", role |-> "assistant", parts |-> <<Answer>>]>>))]]

\* the documents of the JSON files of a run
JsonDocs == <<
    InvalidJson,
    Str(Remark),
    Str("short"),
    Num("12345"),
    Obj(<<"role", "note">>,
        [role |-> "user",
         note |-> "a fairly long note about nothing in particular at all"]),
    List(<<Obj(<<"role", "content">>, [role |-> "user", content |-> Question]),
           OneField("content", Answer),
           OneField("text", Remark),
           OneField("role", "user"),
           OneField("body", Aside)>>),
    Obj(<<"messages">>,
        [messages |-> List(<<OneField("content", Question), Str(Remark)>>)]),
    Obj(<<"conversations">>,
        [conversations |-> List(<<OneField("message", Answer)>>)]),
    List(<<Thread>>),
    List(<<Str(Remark), Str("short"), Str(Aside)>>) >>

JsonNames == <<"a.json", "b.json", "c.json", "d.json">>

\* the number of files of a run of main()
MaxRunFiles == 2

\* the start of a processor whose processed_messages outlives the file: it
\* holds the records of the files before
StartWithRecords(history) ==
    [categories |-> categories, stats |-> stats,
     processed |-> [k \in 1..Len(history) |-> history[k].record],
     accepted |-> history]

\* the locals of a processor at its start: self.categories, self.stats,
\* and an empty processed_messages
StartOfFile(history) ==
    [categories |-> categories, stats |-> stats, processed |-> <<>>,
     accepted |-> history]

\* process_md_file returns a result
TextOutcome(r) == [outcome |-> "ok", acc |-> r.acc, result |-> r.result]

\* one pass of "for file_path in all_files": the instance as the processor
\* left it; the result is appended unless it has 'error' or the call raised
\* (except Exception: the loop goes on)
Ran(file, r) ==
    /\ categories' = r.acc.categories
    /\ stats' = r.acc.stats
    /\ accepted' = r.acc.accepted
    /\ results' = IF r.outcome = "ok" THEN Append(results, r.result) ELSE results
    /\ files' = Append(files, [name |-> file.name, size |-> file.size,
                               outcome |-> r.outcome, input |-> file])
    /\ UNCHANGED <<call, brain>>

\* result = ingestion.process_md_file(str(file_path))
MainTextFile ==
    /\ brain = <<>>
    /\ Len(files) < MaxRunFiles
    /\ \A k \in 1..Len(files) : "content" \in DOMAIN files[k].input
    /\ \E t \in 1..Len(RunTexts) :
          LET file == [name |-> FileNames[Len(files) + 1],
                       size |-> RunTexts[t].size,
                       content |-> RunTexts[t].content]
          IN  Ran(file, TextOutcome(process_md_file(StartOfFile(accepted), file)))

\* result = ingestion.process_json_file(str(file_path))
MainJsonFile ==
    /\ brain = <<>>
    /\ Len(files) < MaxRunFiles
    /\ \E d \in 1..Len(JsonDocs) :
          LET file == [name |-> JsonNames[Len(files) + 1], size |-> 2048,
                       doc |-> JsonDocs[d]]
          IN  Ran(file, process_json_file(StartOfFile(accepted), file))

\* ingestion.generate_static_brain()
GenerateStaticBrain ==
    /\ brain = <<>>
    /\ files # <<>>
    /\ brain' = <<generate_static_brain(categories, stats)>>
    /\ UNCHANGED <<categories, stats, results, accepted, files, call>>

NextMain == MainTextFile \/ MainJsonFile \/ GenerateStaticBrain

SpecMain == Init /\ [][NextMain]_vars

----------------------------------------------------------------------------
(* _process_extremely_large_file one pass of its loop at a time.  call     *)
(* holds the locals of the method: the file and the position of the next   *)
(* read, buffer, context_buffer and processed_count, and the number of     *)
(* characters the buffer held while the last read was processed.           *)

\* an utterance of more than 100 characters that ends in a full stop
Note ==
    "## Note\nThe market data arrives through a single queue in the new version, and every reader takes its share from there.\n\n"

\* a list line of 404 characters without a full stop
Phrase == "a list line that was left without any full stop, "
ListLine ==
    "- " \o Phrase \o Phrase \o Phrase \o Phrase \o Phrase \o Phrase \o Phrase
         \o Phrase \o "and so on\n"

\* 2^k copies of a text
RECURSIVE Doubled(_, _)
Doubled(s, k) == IF k = 0 THEN s ELSE Doubled(s \o s, k - 1)

\* n characters of list lines
Listing(n) == SubSeq(Doubled(ListLine, 9), 1, n)

SevenNotes == Note \o Note \o Note \o Note \o Note \o Note \o Note

\* a text of three reads: seven utterances, then list lines
LongListing == SevenNotes \o Listing(140000)

StreamFragments == <<Keys, BugFix, Plain, Twice, Unfinished, Note, Short>>

\* the number of fragments of a streamed text
MaxStreamFragments == 2

\* the texts of n fragments
RECURSIVE Joined(_, _)
Joined(fragments, n) ==
    IF n = 1 THEN {fragments[k] : k \in 1..Len(fragments)}
    ELSE {t \o fragments[k] :
             t \in Joined(fragments, n - 1), k \in 1..Len(fragments)}

StreamTexts ==
    UNION {Joined(StreamFragments, n) : n \in 1..MaxStreamFragments}
        \cup {SevenNotes, LongListing}

\* with open(file_path, ...) as f, after the locals are set
StreamOpen ==
    /\ call = NoCall
    /\ files = <<>>
    /\ \E text \in StreamTexts :
          call' = [op |-> "reading",
                   file |-> [name |-> FileNames[1], size |-> ExtremeThreshold + 1,
                             content |-> text],
                   pos |-> 0, buffer |-> "", context_buffer |-> <<>>,
                   processed_count |-> 0, held |-> 0]
    /\ UNCHANGED <<categories, stats, results, accepted, files, brain>>

\* the locals and the fields of self as StreamPass takes them
StreamLocals ==
    [categories |-> categories, stats |-> stats,
     processed |-> call.context_buffer,
     processed_count |-> call.processed_count,
     buffer |-> call.buffer, accepted |-> accepted]

\* what a pass leaves in self and in the locals
StreamLeaves(done, held) ==
    /\ categories' = done.categories
    /\ stats' = done.stats
    /\ accepted' = done.accepted
    /\ call' = [call EXCEPT !.pos = @ + ReadSize,
                            !.buffer = done.buffer,
                            !.context_buffer = done.processed,
                            !.processed_count = done.processed_count,
                            !.held = held]
    /\ UNCHANGED <<results, files, brain>>

\* chunk = f.read(chunk_size) returned text: buffer += chunk, and the pass
StreamIteration ==
    /\ call.op = "reading"
    /\ call.pos < Len(call.file.content)
    /\ StreamLeaves(
          StreamPass(StreamLocals, call.file,
                     call.buffer \o Slice(call.file.content, call.pos + 1,
                                          call.pos + ReadSize)),
          Len(call.buffer \o Slice(call.file.content, call.pos + 1,
                                   call.pos + ReadSize)))

\* "if not chunk: break", and the result returned to main()
StreamClose ==
    /\ call.op = "reading"
    /\ call.pos >= Len(call.file.content)
    /\ results' = Append(results, StreamResult(call.file, StreamLocals).result)
    /\ files' = Append(files, [name |-> call.file.name, size |-> call.file.size])
    /\ call' = NoCall
    /\ UNCHANGED <<categories, stats, accepted, brain>>

NextStream == StreamOpen \/ StreamIteration \/ StreamClose

SpecStream == Init /\ [][NextStream]_vars

----------------------------------------------------------------------------
(* _process_large_file_streaming one chunk at a time.  call holds the      *)
(* locals of the method: the file, the index of the next chunk and         *)
(* processed_messages.                                                     *)

\* a short list line followed by 150 blanks
Gap == SubSeq(Doubled(" ", 8), 1, 150)
QuietLine == "- ok then" \o Gap \o "\n"

\* n characters of short list lines
QuietLines(n) == SubSeq(Doubled(QuietLine, 9), 1, n)

\* a text of two chunks: 312 short lines, and an utterance that starts at
\* character 49,920 and ends after character 50,000
Straddling == QuietLines(49920) \o Note \o BugFix

\* the number of fragments of a chunked text
MaxChunkFragments == 2

ChunkTexts ==
    UNION {Joined(StreamFragments, n) : n \in 1..MaxChunkFragments}
        \cup {Straddling}

\* content = f.read(), and the locals
ChunkOpen ==
    /\ call = NoCall
    /\ files = <<>>
    /\ \E text \in ChunkTexts :
          call' = [op |-> "chunking",
                   file |-> [name |-> FileNames[1], size |-> LargeThreshold + 1,
                             content |-> text],
                   i |-> 0, processed_messages |-> <<>>]
    /\ UNCHANGED <<categories, stats, results, accepted, files, brain>>

\* the locals and the fields of self as LargeChunk takes them
ChunkLocals ==
    [categories |-> categories, stats |-> stats,
     processed |-> call.processed_messages, accepted |-> accepted]

\* what a chunk leaves in self and in the locals
ChunkLeaves(done) ==
    /\ categories' = done.categories
    /\ stats' = done.stats
    /\ accepted' = done.accepted
    /\ call' = [call EXCEPT !.i = @ + 1, !.processed_messages = done.processed]
    /\ UNCHANGED <<results, files, brain>>

\* one pass of "for i, chunk in enumerate(chunks)"
ChunkIteration ==
    /\ call.op = "chunking"
    /\ call.i < NumChunks(Len(call.file.content))
    /\ ChunkLeaves(LargeChunk(ChunkLocals, call.file, call.i))

\* the end of the loop, and the result returned to main()
ChunkClose ==
    /\ call.op = "chunking"
    /\ call.i >= NumChunks(Len(call.file.content))
    /\ results' = Append(results, LargeResult(call.file, ChunkLocals).result)
    /\ files' = Append(files, [name |-> call.file.name, size |-> call.file.size])
    /\ call' = NoCall
    /\ UNCHANGED <<categories, stats, accepted, brain>>

NextChunk == ChunkOpen \/ ChunkIteration \/ ChunkClose

SpecChunk == Init /\ [][NextChunk]_vars

----------------------------------------------------------------------------
(* _extract_claude_messages one pass of "while message_list" at a time,    *)
(* for one conversation.  call holds the locals of the method: the         *)
(* conversation, message_list (the identifiers of the nodes appended),     *)
(* processed_ids and all_messages.                                         *)

\* the locals before the loop: the root, if there is one, is appended
WalkStart ==
    /\ call.op = "extract_claude_messages"
    /\ LET conv == call.conversations[1]
           root == FindRoot(conv.mapping)
       IN  call' = [op |-> "walking", conversations |-> call.conversations,
                    message_list |->
                        IF root = 0 THEN <<>> ELSE <<conv.mapping.keys[root]>>,
                    processed_ids |->
                        IF root = 0 THEN {} ELSE {conv.mapping.keys[root]},
                    all_messages |-> <<>>]
    /\ UNCHANGED <<categories, stats, results, accepted, files, brain>>

\* one pass of "while message_list": the message of the last node appended
\* is added, then the next child is appended, or the loop is left
WalkStep ==
    /\ call.op = "walking"
    /\ call.message_list # <<>>
    /\ LET conv == call.conversations[1]
           current_data == conv.mapping.node[call.message_list[Len(call.message_list)]]
           k == NextChild(current_data.children, call.processed_ids)
           found == call.all_messages \o MessageDicts(conv, current_data)
       IN  IF Continues(conv, current_data.children, k)
           THEN call' = [call EXCEPT
                           !.message_list = Append(@, current_data.children[k]),
                           !.processed_ids = @ \cup {current_data.children[k]},
                           !.all_messages = found]
           ELSE call' = [op |-> "extracted",
                         conversations |-> call.conversations,
                         message_list |-> call.message_list,
                         messages |-> found]
    /\ UNCHANGED <<categories, stats, results, accepted, files, brain>>

\* "while message_list" with an empty list: no root was found
WalkNothing ==
    /\ call.op = "walking"
    /\ call.message_list = <<>>
    /\ call' = [op |-> "extracted", conversations |-> call.conversations,
                message_list |-> <<>>, messages |-> call.all_messages]
    /\ UNCHANGED <<categories, stats, results, accepted, files, brain>>

NextWalk == WalkStart \/ WalkStep \/ WalkNothing

\* the loop is a sequential program: it takes its next step
SpecWalk == InitTree /\ [][NextWalk]_vars /\ WF_vars(NextWalk)

----------------------------------------------------------------------------
(* The inference servers: inference_server.py (run_server),                *)
(* inference_server_ct.py (the loop of the script) and                     *)
(* inference_server_gguf.py (run).  A line of the standard input is the    *)
(* JSON value it holds, InvalidJson when json.loads() rejects it; call     *)
(* holds the lines still to read, the lines read, and what was written on  *)
(* the standard output and on the standard error by the loop.  The text of *)
(* an exception, str(e), is left out of the error objects.                 *)

UpperCh(c) == IF c \in Lowers THEN CHOOSE u \in Uppers : LowerOf[u] = c ELSE c

\* str.upper(), one half of the string after the other
RECURSIVE upper(_)
upper(s) ==
    IF Len(s) <= 1 THEN UpperCh(s)
    ELSE upper(SubSeq(s, 1, Len(s) \div 2))
             \o upper(SubSeq(s, Len(s) \div 2 + 1, Len(s)))

Variants == {"inference_server", "inference_server_ct", "inference_server_gguf"}

\* the lines a client sends: a prompt, an object without a prompt, a line
\* that is not JSON, a JSON list, market data, market data that is a
\* number
ServerLines == <<
    Obj(<<"prompt">>, [prompt |-> Str("Should I buy at RSI 25?")]),
    Obj(<<"max_tokens">>, [max_tokens |-> Num("30")]),
    InvalidJson,
    List(<<Num("1")>>),
    Obj(<<"market_data", "timestamp">>,
        [market_data |-> Obj(<<"rsi">>, [rsi |-> Num("25")]),
         timestamp |-> Num("7")]),
    Obj(<<"market_data">>, [market_data |-> Num("5")]) >>

MaxLines == 2

\* the model raises
Raises == "raises"

\* what a call of the model gives: its text, or an exception
ModelOutcomes == {"Buy: RSI oversold at 25.", " sell into strength ",
                  "Wait for a stronger setup.", Raises}

\* the server is started and its client has written its lines
InitServer ==
    /\ NewIngestion
    /\ \E variant \in Variants, n \in 0..MaxLines :
          \E ix \in [1..n -> 1..Len(ServerLines)] :
              call = [op |-> "serving", variant |-> variant,
                      stdin |-> [k \in 1..n |-> ServerLines[ix[k]]],
                      read |-> <<>>, stdout |-> <<>>, stderr |-> <<>>]

\* value.get(key, default) of Python: AttributeError unless value is a dict
HasGet(value) == value.type = "dict"
Get(value, key, default) ==
    IF InList(key, value.keys) THEN value.fields[key] ELSE default

\* "if not prompt": the value is falsy
Falsy(value) ==
    \/ value.type = "str" /\ value.text = ""
    \/ value.type = "num" /\ value.text = "0"
    \/ value.type \in {"dict", "list"} /\
           (IF value.type = "dict" THEN value.keys ELSE value.items) = <<>>

\* inference_server.py, generate_response: the text of the model, and
\* "Error: ..." when anything raises
generate_response(outcome) ==
    IF outcome = Raises THEN "Error" ELSE outcome

\* inference_server.py, the body of "for line in sys.stdin": what it prints
\* on the standard output
RunServerLine(line, outcome) ==
    IF line = InvalidJson
    THEN [response |-> None, error |-> "Invalid JSON"]
    ELSE IF ~HasGet(line)
    THEN [response |-> None, error |-> "Server error"]
    ELSE IF Falsy(Get(line, "prompt", Str("")))
    THEN [response |-> None, error |-> "No prompt provided"]
    ELSE [response |-> generate_response(outcome), error |-> None]

\* inference_server_ct.py: the decision read in the text of the model
Decision(response_text) ==
    LET up == upper(response_text)
    IN  IF Contains(up, Chars(up), "BUY")
        THEN [decision |-> "BUY", confidence |-> 85]
        ELSE IF Contains(up, Chars(up), "SELL")
        THEN [decision |-> "SELL", confidence |-> 85]
        ELSE [decision |-> "HOLD", confidence |-> 50]

\* inference_server_ct.py, the body of the try: the stream it prints on and
\* what it prints
CtLine(line, outcome) ==
    IF line = InvalidJson \/ ~HasGet(line)
       \/ ~HasGet(Get(line, "market_data", Obj(<<>>, <<>>)))
       \/ outcome = Raises
    THEN [stream |-> "stderr", line |-> [error |-> "error"]]
    ELSE [stream |-> "stdout",
          line |-> [decision |-> Decision(outcome).decision,
                    confidence |-> Decision(outcome).confidence,
                    reasoning |-> strip(outcome),
                    timestamp |-> Get(line, "timestamp", Num("0"))]]

\* inference_server_gguf.py, the body of the try: what it prints on the
\* standard output
GgufLine(line, outcome) ==
    IF line = InvalidJson
    THEN [response |-> "Invalid JSON input", status |-> "error"]
    ELSE IF ~HasGet(line) \/ outcome = Raises
    THEN [response |-> "Error", status |-> "error"]
    ELSE [response |-> strip(outcome), status |-> "success"]

\* the line is read
Taken(line) ==
    [call EXCEPT !.stdin = Tail(@), !.read = Append(@, line)]

\* inference_server.py: one pass of "for line in sys.stdin"
RunServerPass ==
    /\ call.op = "serving"
    /\ call.variant = "inference_server"
    /\ call.stdin # <<>>
    /\ \E outcome \in ModelOutcomes :
          LET line == Head(call.stdin)
          IN  call' = [Taken(line) EXCEPT
                         !.stdout = Append(@, RunServerLine(line, outcome))]
    /\ UNCHANGED <<categories, stats, results, accepted, files, brain>>

\* inference_server_ct.py: one pass of "while True" that reads a line
CtPass ==
    /\ call.op = "serving"
    /\ call.variant = "inference_server_ct"
    /\ call.stdin # <<>>
    /\ \E outcome \in ModelOutcomes :
          LET line == Head(call.stdin)
              out == CtLine(line, outcome)
          IN  call' = IF out.stream = "stdout"
                      THEN [Taken(line) EXCEPT !.stdout = Append(@, out.line)]
                      ELSE [Taken(line) EXCEPT !.stderr = Append(@, out.line)]
    /\ UNCHANGED <<categories, stats, results, accepted, files, brain>>

\* inference_server_gguf.py: one pass of "while True" that reads a line
GgufPass ==
    /\ call.op = "serving"
    /\ call.variant = "inference_server_gguf"
    /\ call.stdin # <<>>
    /\ \E outcome \in ModelOutcomes :
          LET line == Head(call.stdin)
          IN  call' = [Taken(line) EXCEPT
                         !.stdout = Append(@, GgufLine(line, outcome))]
    /\ UNCHANGED <<categories, stats, results, accepted, files, brain>>

\* the end of the input: the for loop is over, readline() gives "" and the
\* while loop is left
EndOfInput ==
    /\ call.op = "serving"
    /\ call.stdin = <<>>
    /\ call' = [call EXCEPT !.op = "stopped"]
    /\ UNCHANGED <<categories, stats, results, accepted, files, brain>>

NextServer == RunServerPass \/ CtPass \/ GgufPass \/ EndOfInput

SpecServer == InitServer /\ [][NextServer]_vars

----------------------------------------------------------------------------
(* Properties                                                              *)

\* the text word occurs in text
Occurs(word, text) ==
    \E i \in 1..(Len(text) - Len(word) + 1) :
        SubSeq(text, i, i + Len(word) - 1) = word

\* the records of a list, as a set
Records(list) == {list[k] : k \in 1..Len(list)}

\* C1: every utterance a freeform file yields, under each of the three
\* strategies, is stored as the redactor's output for it: the content of
\* its record, in the history and in every bucket, is the trimmed text
\* filter_secrets returns for the utterance.
StoredTextIsRedacted ==
    /\ \A k \in 1..Len(accepted) :
          accepted[k].record.content
              = strip(filter_secrets(accepted[k].message).filtered_content)
    /\ \A c \in Labels :
          Records(categories[c])
              \subseteq {accepted[k].record : k \in 1..Len(accepted)}

\* C2: redaction is idempotent: filter_secrets applied to the cleaned text
\* filter_secrets returned gives that cleaned text back.
RedactionIdempotent ==
    call.op = "refiltered" =>
        call.again.filtered_content = call.found.filtered_content

\* the collapsed matches of rule p and of the rules after it, in the order
\* filter_secrets meets them
RECURSIVE CandidatesFrom(_, _, _)
CandidatesFrom(content, low, p) ==
    IF p > NumPatterns THEN <<>>
    ELSE LET m == findall(p, content, low)
         IN  [k \in 1..Len(m) |-> [pattern |-> p, value |-> m[k]]]
                 \o CandidatesFrom(content, low, p + 1)

Candidates(content) == CandidatesFrom(content, Chars(lower(content)), 1)

\* the candidates of 8 characters and more, and the shorter ones
LongCandidates(content) ==
    SelectSeq(Candidates(content), LAMBDA c : Len(strip(c.value)) >= 8)
ShortCandidates(content) ==
    SelectSeq(Candidates(content), LAMBDA c : Len(strip(c.value)) < 8)

\* C3: every match whose collapsed string has 8 characters or more is
\* replaced by the placeholder wherever it occurs and yields one audit
\* entry; redacting api_key=abcdefghij1234 returns a text in which the
\* secret is replaced by the placeholder, with exactly one audit entry.
LongMatchesReplaced ==
    call.op = "filtered" =>
        LET long == LongCandidates(call.content)
            cleaned == call.found.filtered_content
        IN  /\ Len(call.found.filtered_secrets) = Len(long)
            /\ \A k \in 1..Len(long) : ~Occurs(long[k].value, cleaned)
            /\ long # <<>> => Occurs(Placeholder, cleaned)
            /\ Occurs("api_key=abcdefghij1234", call.content) =>
                  ~Occurs("abcdefghij1234", cleaned)

\* C4: a candidate whose collapsed string is shorter than 8 characters
\* yields no audit entry and no increment of the counter, and is not
\* replaced: the audit entries are those of the candidates of 8 characters
\* and more, the counter counts them, and a text with short candidates
\* only comes back unchanged.
ShortMatchesSkipped ==
    call.op = "filtered" =>
        LET long == LongCandidates(call.content)
            audit == call.found.filtered_secrets
        IN  /\ Len(audit) = Len(long)
            /\ \A k \in 1..Len(audit) :
                  /\ audit[k].pattern = long[k].pattern
                  /\ audit[k].length = Len(long[k].value)
            /\ stats.secrets_filtered = Len(long)
            /\ long = <<>> => call.found.filtered_content = call.content

\* a text with two candidates, both short (the address 1.2.3.4 and the
\* password abc), came back as it was, without an audit entry
ShortMatchSkipped ==
    /\ call.op = "filtered"
    /\ call.content = "1.2.3.4 pwd=abc"
    /\ Len(ShortCandidates(call.content)) = 2
    /\ call.found.filtered_content = call.content
    /\ call.found.filtered_secrets = <<>>
    /\ stats.secrets_filtered = 0

\* C5: no audit entry holds the full value of a redacted secret, in the
\* list filter_secrets returns or in stats['filtered_patterns']: what is
\* kept of the value has 20 characters at most and is shorter than the
\* secret.
AuditKeepsNoSecret ==
    /\ \A k \in 1..Len(stats.filtered_patterns) :
          Len(stats.filtered_patterns[k].preview) <= 20
    /\ \A k \in 1..Len(accepted) :
          \A j \in 1..Len(accepted[k].secrets_found) :
             /\ Len(accepted[k].secrets_found[j].value) <= 20
             /\ Len(accepted[k].secrets_found[j].value)
                    < accepted[k].secrets_found[j].length

\* the lower-cased text holds a keyword of one of the 15 labels
HasKeyword(msg_lower) ==
    \E r \in 1..Len(CategoryRules) :
        \E w \in 1..Len(CategoryRules[r].words) :
            Occurs(CategoryRules[r].words[w], msg_lower)

\* C6: categorize_message returns a non-empty list of labels, and the list
\* is ['uncategorized'] exactly when the lower-cased utterance holds no
\* keyword of any of the 15 labels.
CategoryTotality ==
    call.op = "categorized" =>
        /\ call.categories # <<>>
        /\ \A k \in 1..Len(call.categories) :
              call.categories[k] \in Labels \cup {"uncategorized"}
        /\ (call.categories = <<"uncategorized">>)
              <=> ~HasKeyword(lower(call.message))

\* an utterance without a keyword got the sentinel, whatever the context
SentinelReturned ==
    /\ call.op = "categorized"
    /\ call.message = "zebra"
    /\ call.context = "the design of the plan"
    /\ call.categories = <<"uncategorized">>

\* C7: the identifier is a function of the stored text alone: two records
\* with the same content have the same id.
IdFollowsContent ==
    \A j \in 1..Len(accepted), k \in 1..Len(accepted) :
        accepted[j].record.content = accepted[k].record.content
            => accepted[j].record.id = accepted[k].record.id

\* The conversation of a tree extraction, its keys, and the walks over them
TreeMapping == call.conversations[1].mapping
TreeKeys == {TreeMapping.keys[k] : k \in 1..Len(TreeMapping.keys)}
Walks ==
    {w \in UNION {[1..n -> TreeKeys] : n \in 0..Len(TreeMapping.keys)} :
        \A j \in 1..Len(w), k \in 1..Len(w) : w[j] = w[k] => j = k}

\* the first child of the n-th node of walk w that the walk has not
\* visited by then, None when every child is visited
FirstOpenChild(w, n) ==
    LET children == TreeMapping.node[w[n]].children
        open == {k \in 1..Len(children) :
                    children[k] \notin {w[j] : j \in 1..n}}
    IN  IF open = {} THEN None ELSE children[Min(open)]

\* the walk starts at the root, the first node without a parent; without a
\* root it is empty
StartsAtRoot(w) ==
    LET roots == {k \in 1..Len(TreeMapping.keys) :
                     TreeMapping.node[TreeMapping.keys[k]].parent = None}
    IN  IF roots = {} THEN w = <<>>
        ELSE w # <<>> /\ w[1] = TreeMapping.keys[Min(roots)]

\* every step of the walk goes to the first unvisited child
FollowsFirstChild(w) ==
    \A n \in 1..(Len(w) - 1) : w[n + 1] = FirstOpenChild(w, n)

\* the message ids of the nodes of the walk that carry text, in its order
TextIds(w) ==
    LET with == SelectSeq(w, LAMBDA id :
                    /\ TreeMapping.node[id].message # <<>>
                    /\ TreeMapping.node[id].message[1].parts # <<>>)
    IN  [k \in 1..Len(with) |-> TreeMapping.node[with[k]].message[1].id]

ExtractedIds == [k \in 1..Len(call.messages) |-> call.messages[k].message_id]

\* the node map {A: children [B, C]; B: child of A; C: child of A}
IsExample ==
    /\ TreeMapping.node["A"] = Node(None, <<"B", "C">>, <<TextOf("A")>>)
    /\ TreeMapping.node["B"] = Node("A", <<>>, <<TextOf("B")>>)
    /\ TreeMapping.node["C"] = Node("A", <<>>, <<TextOf("C")>>)

\* C8 as stated: the extraction walks from the root to the first unvisited
\* child again and again and stops only at a node without an unvisited
\* child; the example map gives exactly [A, B].
ThreadStopsWithoutChild ==
    call.op = "extracted" =>
        /\ \E w \in Walks :
              /\ StartsAtRoot(w)
              /\ FollowsFirstChild(w)
              /\ w # <<>> => FirstOpenChild(w, Len(w)) = None
              /\ ExtractedIds = TextIds(w)
        /\ IsExample => ExtractedIds = <<"A", "B">>

\* C8: the extraction walks from the root to the first unvisited child
\* again and again and stops at a node without an unvisited child, or
\* whose first unvisited child is the empty identifier or no key of the
\* node map; the example map gives exactly [A, B].
ThreadFollowsFirstChild ==
    call.op = "extracted" =>
        /\ \E w \in Walks :
              /\ StartsAtRoot(w)
              /\ FollowsFirstChild(w)
              /\ w # <<>> =>
                    \/ FirstOpenChild(w, Len(w)) = None
                    \/ FirstOpenChild(w, Len(w)) = ""
                    \/ FirstOpenChild(w, Len(w)) \notin TreeKeys
              /\ ExtractedIds = TextIds(w)
        /\ IsExample => ExtractedIds = <<"A", "B">>

\* the example map was extracted as [A, B]
ExampleExtracted ==
    /\ call.op = "extracted"
    /\ IsExample
    /\ ExtractedIds = <<"A", "B">>

\* the strategy that produced a result of main()
StrategyOf(result) ==
    IF "processing_method" \in DOMAIN result THEN result.processing_method
    ELSE "whole_buffer"

\* C9: the strategy follows from the size of the file alone, with strict
\* comparisons: over 100,000,000 bytes streaming, over 10,000,000 and up to
\* 100,000,000 chunked, up to 10,000,000 whole-buffer.
StrategyBySize ==
    /\ Len(files) = Len(results)
    /\ \A k \in 1..Len(results) :
          /\ results[k].file = files[k].name
          /\ StrategyOf(results[k]) =
                IF files[k].size > 100000000 THEN "streaming_extremely_large"
                ELSE IF files[k].size > 10000000 THEN "streaming_large"
                ELSE "whole_buffer"
    /\ \A k \in 1..Len(accepted) :
          accepted[k].method =
                IF accepted[k].file_size > 100000000 THEN "streaming_extremely_large"
                ELSE IF accepted[k].file_size > 10000000 THEN "streaming_large"
                ELSE "normal"

\* a file of exactly 10,000,000 bytes went through the whole buffer and a
\* file of 10,000,001 bytes through the chunks
BoundarySizesProcessed ==
    /\ Len(results) = 2
    /\ files[1].size = 10000000 /\ StrategyOf(results[1]) = "whole_buffer"
    /\ files[2].size = 10000001 /\ StrategyOf(results[2]) = "streaming_large"
    /\ \E k \in 1..Len(accepted) :
          accepted[k].file_size = 10000000 /\ accepted[k].method = "normal"

\* the lower-cased text holds one of the words
Mentions(text, words) == \E w \in words : Occurs(w, text)

\* the text before the utterance in all_messages, lower-cased
PreviousText ==
    LET prev == call.all_messages[call.index]
    IN  IF prev.type = "str" THEN lower(prev.text)
        ELSE IF "content" \in DOMAIN prev.fields THEN lower(prev.fields.content)
        ELSE ""

\* C10: the flow rules are tried in the order iteration, problem_solving,
\* planning, response, standalone and the first that holds wins: a revision
\* word gives iteration even with a roadmap word, and response is given
\* only when no keyword rule holds and index > 0.
FlowPriority ==
    call.op = "analyzed" =>
        LET lc == lower(call.content)
            revision == Mentions(lc, {"instead", "changed", "modified",
                                      "updated", "fixed"})
            defect == Mentions(lc, {"problem", "issue", "error", "bug"})
            roadmap == Mentions(lc, {"plan", "next", "future", "roadmap"})
            answer == /\ call.index > 0
                      /\ Mentions(PreviousText, {"how", "what", "why", "can you"})
        IN  call.flow =
                IF revision THEN "iteration"
                ELSE IF defect THEN "problem_solving"
                ELSE IF roadmap THEN "planning"
                ELSE IF answer THEN "response"
                ELSE "standalone"

\* an utterance with a revision word and a roadmap word came out as
\* iteration
RevisionBeatsRoadmap ==
    /\ call.op = "analyzed"
    /\ call.content = "the roadmap we changed it"
    /\ call.flow = "iteration"


\* The files main() wrote, the master index among them, and the first file
\* of the run
Written == brain[1]
Master == Written[Len(Written)].data
IsText(f) == "content" \in DOMAIN f.input
IsJson(f) == "doc" \in DOMAIN f.input

\* the records of the category files, the ones of the buckets
WrittenRecords ==
    UNION {Records(Written[k].data.messages) : k \in 1..(Len(Written) - 1)}
BucketRecords == UNION {Records(categories[c]) : c \in Labels}

\* the run of the end-to-end example: the one file holds the two-utterance
\* text, and the output is written
EndToEndRun ==
    /\ Len(files) = 1
    /\ IsText(files[1])
    /\ files[1].input.content = EndToEnd
    /\ brain # <<>>

\* C11 as stated: the two-utterance text gives two records, the first
\* with categories {problem_solving, debugging} and flow problem_solving,
\* the second with {future_planning} and flow planning, and the master
\* index reports total_messages 2 and categorized_messages 2.
EndToEndTwoRecords ==
    EndToEndRun =>
        /\ Len(accepted) = 2
        /\ Records(accepted[1].record.categories) = {"problem_solving", "debugging"}
        /\ accepted[1].record.conversation_flow = "problem_solving"
        /\ Records(accepted[2].record.categories) = {"future_planning"}
        /\ accepted[2].record.conversation_flow = "planning"
        /\ Master.total_messages = 2
        /\ Master.categorized_messages = 2

\* C11: the two-utterance text gives no record, both segments being
\* shorter than 50 characters after trimming (49 and 48); the master index
\* reports total_messages 0 and categorized_messages 0, and it is the only
\* file written.
EndToEndNoRecord ==
    EndToEndRun =>
        /\ [k \in 1..3 |-> Len(strip(split_messages(EndToEnd)[k]))] = <<0, 49, 48>>
        /\ accepted = <<>>
        /\ results = <<[file |-> "a.md", messages_processed |-> 0,
                        stats |-> StatsCopy(stats)]>>
        /\ BucketRecords = {}
        /\ Len(Written) = 1
        /\ Master.total_messages = 0
        /\ Master.categorized_messages = 0
        /\ DOMAIN Master.categories = {}

\* the example was processed and the output written: the master index alone
EndToEndWritten ==
    /\ EndToEndRun
    /\ Len(Written) = 1
    /\ Written[1].name = "master_index.json"

\* C12: no record of a bucket or of an output file has a redacted text of
\* fewer than 50 characters.
StoredTextAtLeastFifty ==
    /\ \A r \in BucketRecords : Len(r.content) >= 50
    /\ brain # <<>> => \A r \in WrittenRecords : Len(r.content) >= 50

RECURSIVE Ascending(_)
Ascending(S) ==
    IF S = {} THEN <<>> ELSE <<Min(S)>> \o Ascending(S \ {Min(S)})

\* The characters of an earlier record that a strategy puts into a context
TailOf(method) ==
    IF method = "normal" THEN ContextTail
    ELSE IF method = "streaming_large" THEN LargeContextTail
    ELSE IF method = "streaming_extremely_large" THEN StreamContextTail
    ELSE JsonContextTail

\* the records accepted before the k-th one from the same file, and the
\* context made of some of them
EarlierOfFile(k) ==
    {j \in 1..(k - 1) : accepted[j].file = accepted[k].file}
ContextOf(chosen, n) ==
    join(" ... ", [j \in 1..Len(chosen) |->
                      LastChars(accepted[chosen[j]].record.content, n)])

\* C14: the context of a record is built from records accepted earlier
\* from the same source file, and from nothing else: it is the join of the
\* tails of at most three of them, in their order.
ContextFromOwnFile ==
    \A k \in 1..Len(accepted) :
        \E chosen \in SUBSET EarlierOfFile(k) :
            /\ Cardinality(chosen) <= 3
            /\ accepted[k].record.context_before =
                   ContextOf(Ascending(chosen), TailOf(accepted[k].method))

\* a second file got a record with a context, after a first file that left
\* records too
SecondFileHasContext ==
    /\ Len(files) = 2
    /\ \E j, k \in 1..Len(accepted) :
          /\ accepted[j].file = files[1].name
          /\ accepted[k].file = files[2].name
          /\ accepted[k].record.context_before # ""

\* the step that processes a JSON file whose text does not parse
ReadsInvalidJson ==
    /\ Len(files') = Len(files) + 1
    /\ IsJson(files'[Len(files')])
    /\ files'[Len(files')].input.doc = InvalidJson

\* C15: process_json_file returns an error result for a file that is not
\* valid JSON and raises nothing; buckets, counters and results stay as
\* they were, and main() goes on: the output can still be written.
InvalidJsonSkipped ==
    [][ReadsInvalidJson =>
          /\ files'[Len(files')].outcome = "error"
          /\ UNCHANGED <<categories, stats, accepted, results, brain>>
          /\ (ENABLED GenerateStaticBrain)']_vars

\* an invalid JSON file came first, a file with records after it, and the
\* output was written
WrittenAfterInvalidJson ==
    /\ Len(files) = 2
    /\ IsJson(files[1])
    /\ files[1].input.doc = InvalidJson
    /\ files[1].outcome = "error"
    /\ accepted # <<>>
    /\ brain # <<>>

\* a JSON document of no recognized shape: no list, and no object with a
\* messages or a conversations field
Unrecognized(doc) ==
    /\ doc.type \notin {"list", "invalid"}
    /\ doc.type = "dict" =>
          /\ "messages" \notin DOMAIN doc.fields
          /\ "conversations" \notin DOMAIN doc.fields

\* the records accepted from a file
RecordsOf(name) ==
    SelectSeq(accepted, LAMBDA a : a.file = name)

\* C16: a JSON document of no recognized shape, a bare string or number
\* included, is one utterance candidate: processing completes without
\* raising, with one record when the candidate has 50 characters or more
\* after trimming and none otherwise.
UnrecognizedShapeIsOneCandidate ==
    \A k \in 1..Len(files) :
        (IsJson(files[k]) /\ Unrecognized(files[k].input.doc)) =>
            /\ files[k].outcome = "ok"
            /\ Len(RecordsOf(files[k].name)) =
                   (IF Len(strip(ItemContent(files[k].input.doc))) >= MinMessageLen
                    THEN 1 ELSE 0)


\* The category files among the files written, and the non-empty buckets
CategoryFilesWritten == SubSeq(Written, 1, Len(Written) - 1)
NonEmpty == {c \in Labels : categories[c] # <<>>}

\* C17: generate_static_brain writes one file <label>.json for each
\* non-empty bucket and none for an empty one; the file's total_messages is
\* the length of its list of records; the master index lists the counts of
\* exactly the non-empty categories, and the totals of the run.
OneFilePerNonEmptyBucket ==
    brain # <<>> =>
        /\ \A c \in NonEmpty :
              Cardinality({k \in 1..Len(CategoryFilesWritten) :
                              Written[k].name = c \o ".json"}) = 1
        /\ \A k \in 1..Len(CategoryFilesWritten) :
              /\ Written[k].data.category \in NonEmpty
              /\ Written[k].name = Written[k].data.category \o ".json"
              /\ Written[k].data.messages = categories[Written[k].data.category]
              /\ Written[k].data.total_messages = Len(Written[k].data.messages)
        /\ Written[Len(Written)].name = "master_index.json"
        /\ DOMAIN Master.categories = NonEmpty
        /\ \A c \in NonEmpty : Master.categories[c] = Len(categories[c])
        /\ Master.total_messages = stats.total_messages
        /\ Master.categorized_messages = stats.categorized_messages

\* the output of a run with several non-empty buckets of different sizes
\* and an uncategorized record
SeveralBucketsWritten ==
    /\ brain # <<>>
    /\ Len(Written) >= 4
    /\ \E c, e \in NonEmpty : Len(categories[c]) > Len(categories[e])
    /\ Master.total_messages > Master.categorized_messages

FlowLabels ==
    {"iteration", "problem_solving", "planning", "response", "standalone"}

\* C18: every record, of the three text strategies and of the JSON path
\* alike, carries one flow label out of iteration, problem_solving,
\* planning, response and standalone.
FlowLabelOnEveryRecord ==
    \A k \in 1..Len(accepted) :
        accepted[k].record.conversation_flow \in FlowLabels

\* the last n members of a sequence, fewer when it is shorter
Trailing(seq, n) ==
    SubSeq(seq, (IF Len(seq) > n THEN Len(seq) - n + 1 ELSE 1), Len(seq))

\* C19: the context of a record is made of the up to three records most
\* recently accepted from the same file, in their order; it is empty only
\* when no record of that file was accepted before, short segments
\* dropped before it or not.
ContextIsTrailingWindow ==
    \A k \in 1..Len(accepted) :
        accepted[k].record.context_before =
            ContextOf(Trailing(Ascending(EarlierOfFile(k)), 3),
                      TailOf(accepted[k].method))

\* the utterances of a text: the segments of 50 characters or more after
\* trimming
Utterances(content) ==
    SelectSeq(split_messages(content), LAMBDA m : ~Dropped(m))

\* C20: the streaming strategy emits every utterance of the file as a
\* record exactly once, in order: none is lost, the last one at the end of
\* the file included, and none comes twice.
StreamingEmitsEachOnce ==
    \A k \in 1..Len(files) :
        (IsText(files[k]) /\ IsExtremelyLarge(files[k].size)) =>
            LET emitted == RecordsOf(files[k].name)
            IN  [j \in 1..Len(emitted) |-> emitted[j].message] =
                    Utterances(files[k].input.content)


\* C21: in the streaming strategy the buffer kept after a pass holds at
\* most the last 10,000 characters, so that at most 10,000 + 65,536
\* characters are held while a read is processed, and the context window
\* holds at most 5 records, the last ones accepted.
StreamingMemoryBounded ==
    call.op = "reading" =>
        /\ Len(call.buffer) <= KeepBuffer
        /\ call.held <= KeepBuffer + ReadSize
        /\ Len(call.context_buffer) <= KeepContext
        /\ call.context_buffer =
               [k \in 1..Len(call.context_buffer) |->
                   accepted[Len(accepted) - Len(call.context_buffer) + k].record]

\* a pass held a full buffer and a full read, after more records than the
\* window takes
StreamingMemoryFull ==
    /\ call.op = "reading"
    /\ call.held = KeepBuffer + ReadSize
    /\ Len(call.buffer) = KeepBuffer
    /\ Len(call.context_buffer) = KeepContext
    /\ call.processed_count > KeepContext


\* the text ends in '.', '!' or '?', or in a blank line, or is longer than
\* 500 characters
PunctuatedOrLong(stripped) ==
    EndsSentence(stripped) \/ Len(stripped) > CompleteLongLen

\* C22: the streaming segmenter takes a segment for complete exactly when
\* its trimmed text ends in terminal punctuation or a blank line, or is
\* longer than 500 characters; so every utterance of 50 trimmed characters
\* or more that ends in terminal punctuation is accepted by the streaming
\* strategy.
CompleteByPunctuation ==
    \A k \in 1..Len(files) :
        (IsText(files[k]) /\ IsExtremelyLarge(files[k].size)) =>
            /\ \A piece \in Records(split_messages(files[k].input.content)) :
                  Complete(piece) <=> PunctuatedOrLong(strip(piece))
            /\ \A m \in Records(Utterances(files[k].input.content)) :
                  EndsSentence(strip(m)) =>
                      \E a \in Records(RecordsOf(files[k].name)) : a.message = m


\* the characters chunk i is segmented with: from 5,000 characters before
\* its start, or the start of the text, to its end
ChunkSpan(content, i) ==
    Slice(content,
          (IF i * LargeChunkSize > LargeOverlap
           THEN i * LargeChunkSize - LargeOverlap ELSE 0) + 1,
          (i + 1) * LargeChunkSize)

\* the utterances the records were made of are all among the given ones
WholeUtterances(history, utterances) ==
    \A k \in 1..Len(history) : history[k].message \in utterances

\* C23: the chunked strategy cuts the text into consecutive chunks of
\* 50,000 characters and segments every chunk after the first together
\* with the 5,000 characters before it, so that every character is in a
\* chunk and no record holds an utterance that was cut at a chunk boundary:
\* every record holds a whole utterance of the file.
ChunksKeepUtterancesWhole ==
    (call.op = "chunking" /\ call.i >= NumChunks(Len(call.file.content))) =>
        /\ \A i \in 0..(NumChunks(Len(call.file.content)) - 1) :
              ChunkText(call.file.content, i) = ChunkSpan(call.file.content, i)
        /\ WholeUtterances(accepted, Records(split_messages(call.file.content)))


\* a JSON document that is a flat list of strings, and its strings of 50
\* characters or more after trimming
FlatStrings(doc) ==
    /\ doc.type = "list"
    /\ doc.items # <<>>
    /\ \A k \in 1..Len(doc.items) :
          "type" \in DOMAIN doc.items[k] /\ doc.items[k].type = "str"
LongStrings(doc) ==
    SelectSeq([k \in 1..Len(doc.items) |-> doc.items[k].text],
              LAMBDA text : Len(strip(text)) >= MinMessageLen)

\* C24: for a JSON file that is a flat list of strings, every string of 50
\* characters or more after trimming gives one record with that string as
\* its text, the result's messages_processed is the number of such
\* strings, and total_messages grows by that number.
FlatListOfStringsRecorded ==
    \A k \in 1..Len(files) :
        (IsJson(files[k]) /\ FlatStrings(files[k].input.doc)) =>
            LET strings == LongStrings(files[k].input.doc)
                records == RecordsOf(files[k].name)
            IN  /\ files[k].outcome = "ok"
                /\ [j \in 1..Len(records) |-> records[j].record.content] =
                       [j \in 1..Len(strings) |-> strip(strings[j])]
                /\ \E r \in Records(results) :
                      /\ r.file = files[k].name
                      /\ r.messages_processed = Len(strings)
                /\ Len(files) = 1 => stats.total_messages = Len(strings)


\* The statistics a result shows to its reader: the counters copied when
\* the result was made, and the audit list, which the copy shares with
\* self.stats
SnapshotValue(result, st) ==
    [result.stats EXCEPT
        !.filtered_patterns = IF @ = SharedPatterns THEN st.filtered_patterns
                              ELSE @]

\* C25: the statistics stored in a result are those of the run at the
\* moment the file finished, and no part of them, counters or audit list,
\* changes when later files are processed; the counters of the run never
\* decrease.
SnapshotsNeverChange ==
    [][/\ \A k \in 1..Len(results) :
             SnapshotValue(results'[k], stats') = SnapshotValue(results[k], stats)
       /\ Len(results') > Len(results) =>
             SnapshotValue(results'[Len(results')], stats') = stats'
       /\ stats'.total_messages >= stats.total_messages
       /\ stats'.categorized_messages >= stats.categorized_messages
       /\ stats'.uncategorized_messages >= stats.uncategorized_messages
       /\ stats'.secrets_filtered >= stats.secrets_filtered]_vars

\* C26: the buckets stay the 15 labels of the constructor, and a bucket
\* only grows at its end: what it held stays where it was, as it was.
BucketsOnlyGrow ==
    [][/\ DOMAIN categories' = Labels
       /\ Cardinality(Labels) = 15
       /\ \A c \in Labels :
             /\ Len(categories'[c]) >= Len(categories[c])
             /\ SubSeq(categories'[c], 1, Len(categories[c])) = categories[c]]_vars

\* a bucket holds records of two files, the second file's after the first's
BucketOfTwoFiles ==
    /\ Len(files) = 2
    /\ \E c \in Labels :
          /\ Len(categories[c]) >= 2
          /\ categories[c][1].source_file = files[1].name
          /\ categories[c][Len(categories[c])].source_file = files[2].name

\* the records accepted with label c, in the order of processing
Labelled(c) ==
    LET with == SelectSeq(accepted, LAMBDA a : InList(c, a.record.categories))
    IN  [k \in 1..Len(with) |-> with[k].record]

\* C27: a record is in the bucket of a label exactly when the label is in
\* its category list, once per accepted utterance; a record whose list is
\* ['uncategorized'] is in no bucket and in no output file.
BucketsMatchLabels ==
    /\ \A c \in Labels : categories[c] = Labelled(c)
    /\ \A k \in 1..Len(accepted) :
          accepted[k].record.categories = Uncategorized =>
              /\ accepted[k].record \notin BucketRecords
              /\ brain # <<>> => accepted[k].record \notin WrittenRecords

\* the output of a run with an uncategorized record and a record of two
\* labels or more
MixedLabelsWritten ==
    /\ brain # <<>>
    /\ \E j, k \in 1..Len(accepted) :
          /\ accepted[j].record.categories = Uncategorized
          /\ Len(accepted[k].record.categories) >= 2

\* C28: total_messages equals categorized_messages plus
\* uncategorized_messages, after every file of every strategy, a file that
\* failed partway included, and in every snapshot of a result.
TotalsAddUp ==
    /\ stats.total_messages =
           stats.categorized_messages + stats.uncategorized_messages
    /\ \A k \in 1..Len(results) :
          results[k].stats.total_messages =
              results[k].stats.categorized_messages
                  + results[k].stats.uncategorized_messages

\* a JSON file raised after its first messages were counted, in a run with
\* categorized and uncategorized messages
TotalsAfterFailure ==
    /\ \E k \in 1..Len(files) : files[k].outcome = "raised"
    /\ stats.categorized_messages > 0
    /\ stats.uncategorized_messages > 0


\* the members of a list are all different
NoRepeat(l) == \A i, j \in 1..Len(l) : l[i] = l[j] => i = j

\* the walk so far: every node was appended at most once and is a node of
\* the map, and every utterance comes from a node of its own
EachNodeOnce ==
    call.op \in {"walking", "extracted"} =>
        LET keys == call.conversations[1].mapping.keys
            found == IF call.op = "walking" THEN call.all_messages
                     ELSE call.messages
        IN  /\ NoRepeat(call.message_list)
            /\ Records(call.message_list) \subseteq Records(keys)
            /\ Len(call.message_list) <= Len(keys)
            /\ call.op = "walking" =>
                   call.processed_ids = Records(call.message_list)
            /\ NoRepeat([k \in 1..Len(found) |-> found[k].message_id])
            /\ \A k \in 1..Len(found) :
                   found[k].message_id \in Records(call.message_list)

\* the walk is over: without a root nothing was extracted, and the
\* utterances are those of _extract_claude_messages
WalkOver ==
    /\ call.op = "extracted"
    /\ FindRoot(call.conversations[1].mapping) = 0 => call.messages = <<>>
    /\ call.messages = extract_claude_messages(call.conversations)

\* C29: tree extraction terminates for every node map, also when the
\* children form a cycle, point back to the root or name a node the map
\* does not have; every node is visited at most once, so that a
\* conversation gives at most one utterance per node, and none without a
\* root.
TreeWalkTerminates == []EachNodeOnce /\ <>WalkOver

\* a walk ended at a node whose children are the root and a node that is
\* not in the map, after it had visited two nodes with a message
WalkEndedInCycle ==
    /\ call.op = "extracted"
    /\ Len(call.message_list) >= 2
    /\ Len(call.messages) >= 2
    /\ LET conv == call.conversations[1]
           last == conv.mapping.node[call.message_list[Len(call.message_list)]]
       IN  /\ InList(call.message_list[1], last.children)
           /\ InList("X", last.children)


\* C30: every variant of the inference server answers each line of its
\* standard input with exactly one JSON line on its standard output, in
\* the order of the requests, also when the line is not valid JSON or when
\* handling it raises, and stops only at the end of the input.
EveryRequestAnswered ==
    call.op \in {"serving", "stopped"} =>
        /\ Len(call.stdout) = Len(call.read)
        /\ call.op = "stopped" => call.stdin = <<>>

====
